---- MODULE Spec2Model ----
(***************************************************************************)
(* WarLang mini compiler: scanner.tokenize, parser.Parser,                 *)
(* semantic.SemanticAnalyzer, code_generation.CodeGenerator and the driver *)
(* main.WarLangGUI.run_compiler, as one state machine.  A behaviour is one *)
(* press of RUN on one source text.                                        *)
(***************************************************************************)
EXTENDS Integers, Sequences, FiniteSets, TLC

VARIABLES
    code,        \* run_compiler: the source text, a sequence of characters
    pc,          \* run_compiler: the position in the driver
    console,     \* run_compiler: the stage markers logged so far
    position,    \* tokenize: cursor (0-based offset into code)
    line_num,    \* tokenize: current line, from 1
    line_start,  \* tokenize: offset of the current line's first character
    tokens,      \* tokenize: the token list
    lexerrs,     \* tokenize: the lexical diagnostics printed so far
    perrors,     \* Parser.errors
    root,        \* the tree Parser.parse returned
    scopes,      \* SymbolTable.scopes: a stack of frames, top last
    errors,      \* SemanticAnalyzer.errors
    warnings,    \* SemanticAnalyzer.warnings
    agenda,      \* SemanticAnalyzer: the pending visits of the tree walk, next first
    output,      \* CodeGenerator.output: the fragments generate emitted
    crash        \* the exception run_compiler caught, "none" when there is none

vars == <<code, pc, console, position, line_num, line_start, tokens, lexerrs,
          perrors, root, scopes, errors, warnings, agenda, output, crash>>

(***************************************************************************)
(* Bounds of the model.                                                    *)
(***************************************************************************)
MaxTextLen == 4      \* scanner inputs: every text of at most this many characters
MaxStmts == 1        \* analyzer inputs: statements in the body of a compound statement
MaxNumeralLen == 3   \* the longest numeral of the inputs, in characters

(***************************************************************************)
(* The vocabulary of the input programs: each word with its characters.    *)
(***************************************************************************)
CharsOf ==
       "battle" :> <<"b", "a", "t", "t", "l", "e">> @@
       "soldier" :> <<"s", "o", "l", "d", "i", "e", "r">> @@
       "force" :> <<"f", "o", "r", "c", "e">> @@
       "intel" :> <<"i", "n", "t", "e", "l">> @@
       "flag" :> <<"f", "l", "a", "g">> @@
       "shout" :> <<"s", "h", "o", "u", "t">> @@
       "scout" :> <<"s", "c", "o", "u", "t">> @@
       "shield" :> <<"s", "h", "i", "e", "l", "d">> @@
       "retreat" :> <<"r", "e", "t", "r", "e", "a", "t">> @@
       "march" :> <<"m", "a", "r", "c", "h">> @@
       "deploy" :> <<"d", "e", "p", "l", "o", "y">> @@
       "#call" :> <<"#", "c", "a", "l", "l">> @@
       "x" :> <<"x">> @@
       "y" :> <<"y">> @@
       "z" :> <<"z">> @@
       "i" :> <<"i">> @@
       "j" :> <<"j">> @@
       "lib" :> <<"l", "i", "b">> @@
       "Ally" :> <<"A", "l", "l", "y">> @@
       "Enemy" :> <<"E", "n", "e", "m", "y">> @@
       "5" :> <<"5">> @@
       "0" :> <<"0">> @@
       "3" :> <<"3">> @@
       "1.5" :> <<"1", ".", "5">> @@
       "\"s\"" :> <<"\"", "s", "\"">> @@
       "(" :> <<"(">> @@
       ")" :> <<")">> @@
       "{" :> <<"{">> @@
       "}" :> <<"}">> @@
       ";" :> <<";">> @@
       "=" :> <<"=">> @@
       "+" :> <<"+">> @@
       "-" :> <<"-">> @@
       "*" :> <<"*">> @@
       "/" :> <<"/">> @@
       "<" :> <<"<">> @@
       "==" :> <<"=", "=">> @@
       "++" :> <<"+", "+">> @@
       "," :> <<",">> @@
       "\n" :> <<"\n">>

\* the words of the vocabulary the scanner emits as IDENTIFIER
IdentifierWords == {"x", "y", "z", "i", "j", "lib", "Ally", "Enemy"}

(***************************************************************************)
(* Characters and text.                                                    *)
(***************************************************************************)
Digits == {"0", "1", "2", "3", "4", "5", "6", "7", "8", "9"}

IdStart ==
    {"a", "b", "c", "d", "e", "f", "g", "h", "i", "j", "k", "l", "m",
     "n", "o", "p", "q", "r", "s", "t", "u", "v", "w", "x", "y", "z",
     "A", "B", "C", "D", "E", "F", "G", "H", "I", "J", "K", "L", "M",
     "N", "O", "P", "Q", "R", "S", "T", "U", "V", "W", "X", "Y", "Z", "_"}

WordChars == IdStart \cup Digits

Whitespace == {" ", "\t", "\n"}

RECURSIVE Concat(_)
Concat(strs) == IF strs = <<>> THEN "" ELSE Head(strs) \o Concat(Tail(strs))

\* code[a:b] as one string (0-based, b exclusive)
Slice(text, a, b) == Concat(SubSeq(text, a + 1, b))

\* str.strip() of run_compiler
RECURSIVE LStrip(_)
LStrip(text) ==
    IF text # <<>> /\ Head(text) \in Whitespace THEN LStrip(Tail(text)) ELSE text

RECURSIVE RStrip(_)
RStrip(text) ==
    IF text # <<>> /\ text[Len(text)] \in Whitespace
    THEN RStrip(SubSeq(text, 1, Len(text) - 1)) ELSE text

Strip(text) == RStrip(LStrip(text))

(***************************************************************************)
(* scanner.py                                                              *)
(***************************************************************************)
KEYWORDS ==
    [w \in {"battle", "strategy", "soldier", "force", "intel", "flag", "shout",
            "scout", "shield", "retreat", "march", "deploy", "victory",
            "#call", "camp"} |->
        CASE w = "battle"   -> "PROGRAM_START"
          [] w = "strategy" -> "FUNCTION_DEFINITION"
          [] w = "soldier"  -> "INT_TYPE"
          [] w = "force"    -> "FLOAT_TYPE"
          [] w = "intel"    -> "STRING_TYPE"
          [] w = "flag"     -> "BOOL_TYPE"
          [] w = "shout"    -> "OUTPUT"
          [] w = "scout"    -> "INPUT"
          [] w = "shield"   -> "IF"
          [] w = "retreat"  -> "ELSE"
          [] w = "march"    -> "WHILE"
          [] w = "deploy"   -> "FOR"
          [] w = "victory"  -> "RETURN"
          [] w = "#call"    -> "INCLUDE_IMPORT"
          [] w = "camp"     -> "NAMESPACE"]

\* KEYWORDS.get(value, 'IDENTIFIER')
KeywordType(value) ==
    IF value \in DOMAIN KEYWORDS THEN KEYWORDS[value] ELSE "IDENTIFIER"

\* the names of PATTERNS, in the order the dictionary is iterated
PATTERNS ==
    <<"INCREMENT", "DECREMENT", "NUMBER", "STRING", "IDENTIFIER", "EQ", "NOT_EQ",
      "LE", "GE", "ASSIGN", "LESS_THAN", "GREAT_THAN", "PLUS", "MINUS", "MUL",
      "DIV", "LPAREN", "RPAREN", "LBRACE", "RBRACE", "SEMICOLON", "COMMENT",
      "NEWLINE", "SKIP", "MISMATCH">>

NoMatch == -1

\* the end of the longest run of characters of S that starts at offset p
RunEnd(text, p, S) ==
    CHOOSE e \in p..Len(text) :
        /\ \A k \in (p + 1)..e : text[k] \in S
        /\ e = Len(text) \/ text[e + 1] \notin S

\* the end of the longest run of characters outside S that starts at offset p
RunEndNot(text, p, S) ==
    CHOOSE e \in p..Len(text) :
        /\ \A k \in (p + 1)..e : text[k] \notin S
        /\ e = Len(text) \/ text[e + 1] \in S

\* a literal pattern: the characters lit at offset p
Lit(text, p, lit) ==
    IF p + Len(lit) <= Len(text) /\ SubSeq(text, p + 1, p + Len(lit)) = lit
    THEN p + Len(lit) ELSE NoMatch

\* r'\d+(\.\d+)?'
MatchNumber(text, p) ==
    IF text[p + 1] \notin Digits THEN NoMatch
    ELSE LET e == RunEnd(text, p, Digits)
         IN  IF e + 2 <= Len(text) /\ text[e + 1] = "." /\ text[e + 2] \in Digits
             THEN RunEnd(text, e + 1, Digits) ELSE e

\* r'"[^"\n]*"?'
MatchString(text, p) ==
    IF text[p + 1] # "\"" THEN NoMatch
    ELSE LET e == RunEndNot(text, p + 1, {"\"", "\n"})
         IN  IF e < Len(text) /\ text[e + 1] = "\"" THEN e + 1 ELSE e

\* r'[A-Za-z_]\w*'
MatchIdentifier(text, p) ==
    IF text[p + 1] \notin IdStart THEN NoMatch ELSE RunEnd(text, p + 1, WordChars)

\* regex.match(code, position) for the pattern called name: the match's end, or NoMatch
MatchPattern(name, text, p) ==
    CASE name = "INCREMENT"  -> Lit(text, p, <<"+", "+">>)
      [] name = "DECREMENT"  -> Lit(text, p, <<"-", "-">>)
      [] name = "NUMBER"     -> MatchNumber(text, p)
      [] name = "STRING"     -> MatchString(text, p)
      [] name = "IDENTIFIER" -> MatchIdentifier(text, p)
      [] name = "EQ"         -> Lit(text, p, <<"=", "=">>)
      [] name = "NOT_EQ"     -> Lit(text, p, <<"!", "=">>)
      [] name = "LE"         -> Lit(text, p, <<"<", "=">>)
      [] name = "GE"         -> Lit(text, p, <<">", "=">>)
      [] name = "ASSIGN"     -> Lit(text, p, <<"=">>)
      [] name = "LESS_THAN"  -> Lit(text, p, <<"<">>)
      [] name = "GREAT_THAN" -> Lit(text, p, <<">">>)
      [] name = "PLUS"       -> Lit(text, p, <<"+">>)
      [] name = "MINUS"      -> Lit(text, p, <<"-">>)
      [] name = "MUL"        -> Lit(text, p, <<"*">>)
      [] name = "DIV"        -> Lit(text, p, <<"/">>)
      [] name = "LPAREN"     -> Lit(text, p, <<"(">>)
      [] name = "RPAREN"     -> Lit(text, p, <<")">>)
      [] name = "LBRACE"     -> Lit(text, p, <<"{">>)
      [] name = "RBRACE"     -> Lit(text, p, <<"}">>)
      [] name = "SEMICOLON"  -> Lit(text, p, <<";">>)
      [] name = "COMMENT"    -> IF text[p + 1] = "#"
                                THEN RunEndNot(text, p + 1, {"\n"}) ELSE NoMatch
      [] name = "NEWLINE"    -> Lit(text, p, <<"\n">>)
      [] name = "SKIP"       -> IF text[p + 1] \in {" ", "\t"}
                                THEN RunEnd(text, p, {" ", "\t"}) ELSE NoMatch
      [] name = "MISMATCH"   -> IF text[p + 1] # "\n" THEN p + 1 ELSE NoMatch

\* the first pattern of PATTERNS that matches at offset p (0 when none does)
FirstPattern(text, p) ==
    LET hits == {k \in 1..Len(PATTERNS) : MatchPattern(PATTERNS[k], text, p) # NoMatch}
    IN  IF hits = {} THEN 0 ELSE CHOOSE k \in hits : \A m \in hits : k <= m

\* Token with its column counted from 0: a fault C15_TokenFidelity has to tell
\* from Token
Token_column_from_0(type, value, line, column) ==
    [type |-> type, value |-> value, line |-> line, column |-> column - 1]

Token(type, value, line, column) ==
    [type |-> type, value |-> value, line |-> line, column |-> column]

LexError(msg, line, column) == [msg |-> msg, line |-> line, column |-> column]

\* re.match(r'\d+[A-Za-z_]\w*', code[position:]): the match's end, or NoMatch
MatchInvalidNumber(text, p) ==
    LET d == RunEnd(text, p, Digits)
    IN  IF d < Len(text) /\ text[d + 1] \in IdStart
        THEN RunEnd(text, d + 1, WordChars) ELSE NoMatch

\* one iteration of tokenize's while loop, as the new values of its locals
\* (raised: the exception the iteration ends with, "none" when it completes)
ScanIteration(text, p, ln, ls, toks, errs) ==
    LET k      == FirstPattern(text, p)
        name   == PATTERNS[k]
        e      == MatchPattern(name, text, p)
        value  == Slice(text, p, e)
        column == p - ls + 1
        same   == [position |-> p, line_num |-> ln, line_start |-> ls,
                   tokens |-> toks, lexerrs |-> errs, raised |-> "none"]
    IN  IF k = 0
        THEN [same EXCEPT !.position = p + 1,
                          !.lexerrs = Append(errs,
                              LexError("Unexpected symbol '" \o text[p + 1] \o "'",
                                       ln, column))]
        ELSE CASE name = "NEWLINE" ->
                 [same EXCEPT !.line_start = e, !.line_num = ln + 1, !.position = e]
          [] name \in {"SKIP", "COMMENT"} ->
                 [same EXCEPT !.position = e]
          [] name = "STRING" ->
                 IF text[e] # "\""
                 THEN [same EXCEPT !.position = e,
                                   !.lexerrs = Append(errs,
                                       LexError("Unterminated string literal", ln, column))]
                 ELSE [same EXCEPT !.position = e,
                                   !.tokens = Append(toks, Token(name, value, ln, column))]
          [] name = "NUMBER" ->
                 IF e < Len(text) /\ text[e + 1] \in IdStart
                 THEN LET inv == MatchInvalidNumber(text, p)
                      IN  IF inv = NoMatch
                          THEN [same EXCEPT !.raised = "AttributeError"]
                          ELSE [same EXCEPT
                                  !.position = p + (inv - p),
                                  !.lexerrs = Append(errs,
                                      LexError("Invalid number format '"
                                               \o Slice(text, p, inv) \o "'", ln, column))]
                 ELSE [same EXCEPT !.position = e,
                                   !.tokens = Append(toks, Token(name, value, ln, column))]
          [] name = "IDENTIFIER" ->
                 [same EXCEPT !.position = e,
                              !.tokens = Append(toks,
                                  Token(KeywordType(value), value, ln, column))]
          [] name = "DIV" /\ Lit(text, p, <<"/", "/">>) # NoMatch ->
                 [same EXCEPT !.position = p + 2,
                              !.lexerrs = Append(errs,
                                  LexError("Unexpected symbol '//'", ln, column))]
          [] name = "MISMATCH" ->
                 [same EXCEPT !.position = e,
                              !.lexerrs = Append(errs,
                                  LexError("Unexpected symbol '" \o value \o "'",
                                           ln, column))]
          [] OTHER ->
                 [same EXCEPT !.position = e,
                              !.tokens = Append(toks, Token(name, value, ln, column))]

(***************************************************************************)
(* parser.py                                                               *)
(***************************************************************************)
\* ParseNode; value "" stands for a node without payload
Node(name, children, value, line) ==
    [name |-> name, children |-> children, value |-> value, line |-> line]

\* Python's None where a ParseNode is expected
NoneNode == Node("None", <<>>, "", 0)

\* the synthetic token Parser.current_token returns at the end of the tokens
EOFToken == [type |-> "EOF", value |-> "", line |-> -1, column |-> 0]

\* Python's None where Parser.match returns no token
NoneToken == [type |-> "None", value |-> "", line |-> 0, column |-> 0]

TypeTokens == {"INT_TYPE", "FLOAT_TYPE", "STRING_TYPE", "BOOL_TYPE"}

\* the Parser object while parse runs: position and errors; the exception
\* raised so far ("none" while there is none; nothing runs after a raise);
\* the nodes the running methods hold in their locals, innermost last; and
\* what the last call of match returned
ParserState(pos, errs, raised) ==
    [position |-> pos, errors |-> errs, raised |-> raised,
     stack |-> <<>>, tok |-> NoneToken]

Raise(ps, what) == IF ps.raised = "none" THEN [ps EXCEPT !.raised = what] ELSE ps

\* the node a method returned or created last
top(ps) == ps.stack[Len(ps.stack)]

push(ps, node) ==
    IF ps.raised # "none" THEN ps ELSE [ps EXCEPT !.stack = Append(@, node)]

\* the last n nodes held, and the state without them
last(ps, n) == SubSeq(ps.stack, Len(ps.stack) - n + 1, Len(ps.stack))

pop(ps, n) == [ps EXCEPT !.stack = SubSeq(@, 1, Len(@) - n)]

\* a node created after the operand it precedes in the children
swap(ps) ==
    IF ps.raised # "none" THEN ps
    ELSE push(push(pop(ps, 2), top(ps)), last(ps, 2)[1])

\* "if x: children.append(x)": a None result is not kept
drop_none(ps) ==
    IF ps.raised # "none" THEN ps
    ELSE IF top(ps) = NoneNode THEN pop(ps, 1) ELSE ps

\* root.children.append(x), root being the node below x
append_child(ps) ==
    IF ps.raised # "none" THEN ps
    ELSE push(pop(ps, 2), [last(ps, 2)[1] EXCEPT !.children = Append(@, top(ps))])

current_token(toks, ps) ==
    IF ps.position < Len(toks) THEN toks[ps.position + 1] ELSE EOFToken

advance(toks, ps) ==
    IF ps.raised = "none" /\ ps.position < Len(toks)
    THEN [ps EXCEPT !.position = @ + 1] ELSE ps

\* Parser.error
error(toks, ps, message) ==
    IF ps.raised # "none" THEN ps
    ELSE [ps EXCEPT !.errors =
            Append(@, [msg |-> message, line |-> current_token(toks, ps).line])]

\* Parser.match: tok is the token returned, NoneToken for None
match(toks, ps, expected_type) ==
    IF ps.raised # "none" THEN ps
    ELSE IF current_token(toks, ps).type = expected_type
    THEN [advance(toks, ps) EXCEPT !.tok = current_token(toks, ps)]
    ELSE [error(toks, ps, "Expected " \o expected_type \o " but found "
                          \o current_token(toks, ps).type)
            EXCEPT !.tok = NoneToken]

\* Parser.make_node with a token
make_node_tok(ps, name, value, token) == push(ps, Node(name, <<>>, value, token.line))

\* Parser.make_node without a token, its children being the last n nodes held:
\* the line comes from the first child, which must be a node, or from the token
\* before the cursor
make_node(toks, ps, name, n, value) ==
    IF ps.raised # "none" THEN ps
    ELSE IF n > 0
    THEN IF last(ps, n)[1] = NoneNode
         THEN Raise(ps, "AttributeError")
         ELSE push(pop(ps, n), Node(name, last(ps, n), value, last(ps, n)[1].line))
    ELSE IF ps.position > 0
    THEN push(ps, Node(name, <<>>, value, toks[ps.position].line))
    ELSE push(ps, Node(name, <<>>, value, 0))

RECURSIVE parse_expr(_, _), parse_statement(_, _), parse_block(_, _)
RECURSIVE parse_relational_loop(_, _), parse_additive_loop(_, _), parse_term_loop(_, _)
RECURSIVE parse_statement_loop(_, _, _), parse_output_loop(_, _, _)
RECURSIVE parse_import_loop(_, _, _), parse_global_loop(_, _, _)

parse_factor(toks, ps) ==
    IF ps.raised # "none" THEN ps
    ELSE CASE current_token(toks, ps).type = "NUMBER" ->
             make_node_tok(advance(toks, ps), "Number",
                           current_token(toks, ps).value, current_token(toks, ps))
      [] current_token(toks, ps).type = "STRING" ->
             make_node_tok(advance(toks, ps), "String",
                           current_token(toks, ps).value, current_token(toks, ps))
      [] current_token(toks, ps).type = "IDENTIFIER" ->
             make_node_tok(advance(toks, ps), "Identifier",
                           current_token(toks, ps).value, current_token(toks, ps))
      [] current_token(toks, ps).type = "BOOL_TYPE" ->
             make_node_tok(advance(toks, ps), "Bool",
                           current_token(toks, ps).value, current_token(toks, ps))
      [] current_token(toks, ps).type = "LPAREN" ->
             match(toks, parse_expr(toks, advance(toks, ps)), "RPAREN")
      [] OTHER ->
             make_node(toks, advance(toks, ps), "Error", 0, "")

parse_term(toks, ps) == parse_term_loop(toks, parse_factor(toks, ps))

\* the while loop of parse_term, the left operand so far being the last node
parse_term_loop(toks, ps) ==
    IF ps.raised = "none" /\ current_token(toks, ps).type \in {"MUL", "DIV"}
    THEN parse_term_loop(toks,
             make_node(toks,
                 swap(make_node(toks, parse_factor(toks, advance(toks, ps)),
                                "Op", 0, current_token(toks, ps).value)),
                 "TermExpr", 3, ""))
    ELSE ps

parse_additive(toks, ps) == parse_additive_loop(toks, parse_term(toks, ps))

\* the loop of parse_additive taking a whole additive expression as its right
\* operand, which groups to the right: a fault C16_ExpressionGrouping has to
\* tell from it
parse_additive_loop_right(toks, ps) ==
    IF ps.raised = "none" /\ current_token(toks, ps).type \in {"PLUS", "MINUS"}
    THEN make_node(toks,
             swap(make_node(toks, parse_additive(toks, advance(toks, ps)),
                            "Op", 0, current_token(toks, ps).value)),
             "AdditiveExpr", 3, "")
    ELSE ps

parse_additive_loop(toks, ps) ==
    IF ps.raised = "none" /\ current_token(toks, ps).type \in {"PLUS", "MINUS"}
    THEN parse_additive_loop(toks,
             make_node(toks,
                 swap(make_node(toks, parse_term(toks, advance(toks, ps)),
                                "Op", 0, current_token(toks, ps).value)),
                 "AdditiveExpr", 3, ""))
    ELSE ps

parse_relational(toks, ps) == parse_relational_loop(toks, parse_additive(toks, ps))

parse_relational_loop(toks, ps) ==
    IF ps.raised = "none"
       /\ current_token(toks, ps).type \in
              {"EQ", "NOT_EQ", "LESS_THAN", "GREAT_THAN", "LE", "GE"}
    THEN parse_relational_loop(toks,
             make_node(toks,
                 swap(make_node(toks, parse_additive(toks, advance(toks, ps)),
                                "Op", 0, current_token(toks, ps).value)),
                 "RelationalExpr", 3, ""))
    ELSE ps

parse_expr(toks, ps) == parse_relational(toks, ps)

\* Parser.parse_declaration after its match of the identifier; the result is
\* NoneNode when the identifier is missing
parse_declaration_rest(toks, ps) ==
    IF ps.raised # "none" THEN ps
    ELSE IF ps.tok = NoneToken THEN push(pop(ps, 1), NoneNode)
    ELSE IF current_token(toks, ps).type = "ASSIGN"
    THEN make_node(toks,
             match(toks,
                 parse_expr(toks,
                     make_node(toks,
                         advance(toks,
                             make_node_tok(ps, "Identifier", ps.tok.value, ps.tok)),
                         "AssignOp", 0, "=")),
                 "SEMICOLON"),
             "Declaration", 4, "")
    ELSE make_node(toks,
             match(toks, make_node_tok(ps, "Identifier", ps.tok.value, ps.tok),
                   "SEMICOLON"),
             "Declaration", 2, "")

parse_declaration(toks, ps) ==
    parse_declaration_rest(toks,
        match(toks,
            make_node_tok(advance(toks, ps), "Type",
                          current_token(toks, ps).value, current_token(toks, ps)),
            "IDENTIFIER"))

\* Parser.parse_assignment after its match of the identifier, whose value and
\* line are read whatever match returned
parse_assignment_rest(toks, ps) ==
    IF ps.raised # "none" THEN ps
    ELSE IF ps.tok = NoneToken THEN Raise(ps, "AttributeError")
    ELSE make_node(toks,
             match(toks,
                 parse_expr(toks,
                     make_node(toks,
                         match(toks,
                             make_node_tok(ps, "Identifier", ps.tok.value, ps.tok),
                             "ASSIGN"),
                         "AssignOp", 0, "=")),
                 "SEMICOLON"),
             "Assignment", 3, "")

parse_assignment(toks, ps) == parse_assignment_rest(toks, match(toks, ps, "IDENTIFIER"))

\* Parser.parse_statement_list: its while loop, then its node; the children are
\* the nodes held beyond the first `base`
parse_statement_loop(toks, ps, base) ==
    IF ps.raised # "none" THEN ps
    ELSE IF current_token(toks, ps).type \notin {"RBRACE", "EOF"}
    THEN parse_statement_loop(toks, drop_none(parse_statement(toks, ps)), base)
    ELSE make_node(toks, ps, "StatementList", Len(ps.stack) - base, "")

parse_statement_list(toks, ps) == parse_statement_loop(toks, ps, Len(ps.stack))

parse_block(toks, ps) ==
    make_node(toks,
        match(toks, parse_statement_list(toks, match(toks, ps, "LBRACE")), "RBRACE"),
        "Block", 1, "")

\* Parser.parse_if_stmt after its first block
parse_if_rest(toks, ps) ==
    IF ps.raised # "none" THEN ps
    ELSE IF current_token(toks, ps).type = "ELSE"
    THEN make_node(toks,
             make_node(toks, parse_block(toks, match(toks, ps, "ELSE")),
                       "ElsePart", 1, ""),
             "IfStmt", 3, "")
    ELSE make_node(toks, ps, "IfStmt", 2, "")

parse_if_stmt(toks, ps) ==
    parse_if_rest(toks,
        parse_block(toks,
            match(toks,
                parse_expr(toks, match(toks, match(toks, ps, "IF"), "LPAREN")),
                "RPAREN")))

parse_while_stmt(toks, ps) ==
    make_node(toks,
        parse_block(toks,
            match(toks,
                parse_expr(toks, match(toks, match(toks, ps, "WHILE"), "LPAREN")),
                "RPAREN")),
        "WhileStmt", 2, "")

\* Parser.parse_for_update; self.tokens[self.position + 1] is a plain list index
parse_for_update(toks, ps) ==
    IF ps.raised # "none" THEN ps
    ELSE IF current_token(toks, ps).type = "IDENTIFIER"
    THEN IF ps.position + 1 >= Len(toks)
         THEN Raise(ps, "IndexError")
         ELSE CASE toks[ps.position + 2].type = "ASSIGN" ->
                   make_node(toks,
                       swap(make_node(toks,
                                parse_expr(toks,
                                    advance(toks, advance(toks,
                                        make_node_tok(ps, "Identifier",
                                            current_token(toks, ps).value,
                                            current_token(toks, ps))))),
                                "AssignOp", 0, "=")),
                       "Assignment", 3, "")
                [] toks[ps.position + 2].type = "INCREMENT" ->
                   make_node(toks, advance(toks, advance(toks, ps)), "Increment", 0,
                             current_token(toks, ps).value \o "++")
                [] OTHER -> make_node(toks, ps, "EmptyUpdate", 0, "")
    ELSE make_node(toks, ps, "EmptyUpdate", 0, "")

\* Parser.parse_for_stmt after its match of the parenthesis: the children are
\* the nodes held beyond the first `base`
parse_for_rest(toks, ps, base) ==
    make_node(toks,
        parse_block(toks,
            match(toks,
                parse_for_update(toks, match(toks, parse_expr(toks, ps), "SEMICOLON")),
                "RPAREN")),
        "ForStmt", Len(ps.stack) - base + 3, "")

parse_for_header(toks, ps) ==
    IF ps.raised # "none" THEN ps
    ELSE IF current_token(toks, ps).type \in TypeTokens
    THEN parse_for_rest(toks, parse_declaration(toks, ps), Len(ps.stack))
    ELSE parse_for_rest(toks, ps, Len(ps.stack))

parse_for_stmt(toks, ps) ==
    parse_for_header(toks, match(toks, match(toks, ps, "FOR"), "LPAREN"))

\* the while loop of parse_output_stmt, then the rest of the method
parse_output_loop(toks, ps, base) ==
    IF ps.raised # "none" THEN ps
    ELSE IF current_token(toks, ps).type = "COMMA"
    THEN parse_output_loop(toks, parse_expr(toks, advance(toks, ps)), base)
    ELSE make_node(toks, match(toks, match(toks, ps, "RPAREN"), "SEMICOLON"),
                   "OutputStmt", Len(ps.stack) - base, "")

parse_output_stmt(toks, ps) ==
    parse_output_loop(toks,
        parse_expr(toks, match(toks, match(toks, ps, "OUTPUT"), "LPAREN")),
        Len(ps.stack))

\* Parser.parse_input_stmt after its match of the identifier
parse_input_rest(toks, ps) ==
    IF ps.raised # "none" THEN ps
    ELSE IF ps.tok # NoneToken
    THEN make_node(toks,
             match(toks,
                 match(toks, make_node_tok(ps, "Identifier", ps.tok.value, ps.tok),
                       "RPAREN"),
                 "SEMICOLON"),
             "InputStmt", 1, "")
    ELSE make_node(toks, match(toks, match(toks, ps, "RPAREN"), "SEMICOLON"),
                   "InputStmt", 0, "")

parse_input_stmt(toks, ps) ==
    parse_input_rest(toks,
        match(toks, match(toks, match(toks, ps, "INPUT"), "LPAREN"), "IDENTIFIER"))

\* Parser.parse_include_stmt after its match of the identifier
parse_include_rest(toks, ps) ==
    IF ps.raised # "none" THEN ps
    ELSE IF ps.tok # NoneToken
    THEN make_node(toks, make_node(toks, ps, "ImportName", 0, ps.tok.value),
                   "IncludeStmt", 1, "")
    ELSE make_node(toks, ps, "IncludeStmt", 0, "")

parse_include_stmt(toks, ps) ==
    parse_include_rest(toks,
        match(toks, match(toks, ps, "INCLUDE_IMPORT"), "IDENTIFIER"))

\* Parser.parse_statement; the result is NoneNode when the method returns None
parse_statement(toks, ps) ==
    IF ps.raised # "none" THEN ps
    ELSE CASE current_token(toks, ps).type \in TypeTokens  -> parse_declaration(toks, ps)
      [] current_token(toks, ps).type = "IDENTIFIER" -> parse_assignment(toks, ps)
      [] current_token(toks, ps).type = "IF"         -> parse_if_stmt(toks, ps)
      [] current_token(toks, ps).type = "WHILE"      -> parse_while_stmt(toks, ps)
      [] current_token(toks, ps).type = "FOR"        -> parse_for_stmt(toks, ps)
      [] current_token(toks, ps).type = "OUTPUT"     -> parse_output_stmt(toks, ps)
      [] current_token(toks, ps).type = "INPUT"      -> parse_input_stmt(toks, ps)
      [] current_token(toks, ps).type = "COMMENT"    ->
             push(advance(toks, ps), NoneNode)
      [] OTHER ->
             push(advance(toks,
                      error(toks, ps, "Unexpected token "
                                      \o current_token(toks, ps).type)),
                  NoneNode)

\* Parser.parse_import_list: its while loop, then its node (NoneNode for None)
parse_import_loop(toks, ps, base) ==
    IF ps.raised # "none" THEN ps
    ELSE IF current_token(toks, ps).type = "INCLUDE_IMPORT"
    THEN parse_import_loop(toks, parse_include_stmt(toks, ps), base)
    ELSE IF Len(ps.stack) = base THEN push(ps, NoneNode)
    ELSE make_node(toks, ps, "ImportList", Len(ps.stack) - base, "")

parse_import_list(toks, ps) == parse_import_loop(toks, ps, Len(ps.stack))

\* Parser.parse_global_decls: its while loop, then its node (NoneNode for None)
parse_global_loop(toks, ps, base) ==
    IF ps.raised # "none" THEN ps
    ELSE IF current_token(toks, ps).type \in TypeTokens
    THEN parse_global_loop(toks, parse_declaration(toks, ps), base)
    ELSE IF Len(ps.stack) = base THEN push(ps, NoneNode)
    ELSE make_node(toks, ps, "GlobalDeclarations", Len(ps.stack) - base, "")

parse_global_decls(toks, ps) == parse_global_loop(toks, ps, Len(ps.stack))

\* Parser.parse_main_function after its match of the program start
parse_main_rest(toks, ps) ==
    IF ps.raised # "none" THEN ps
    ELSE IF ps.tok = NoneToken THEN make_node(toks, ps, "Error_Main", 0, "")
    ELSE make_node(toks,
             parse_block(toks, match(toks, match(toks, ps, "LPAREN"), "RPAREN")),
             "MainFunction", 1, "")

parse_main_function(toks, ps) == parse_main_rest(toks, match(toks, ps, "PROGRAM_START"))

\* "if x: root.children.append(x)"
append_if(ps) ==
    IF ps.raised # "none" THEN ps
    ELSE IF top(ps) = NoneNode THEN pop(ps, 1) ELSE append_child(ps)

\* Parser(tokens).parse(): the parser's final state, the tree being the one node
\* it holds
parse(toks) ==
    append_child(
        parse_main_function(toks,
            append_if(
                parse_global_decls(toks,
                    append_if(
                        parse_import_list(toks,
                            make_node(toks, ParserState(0, <<>>, "none"),
                                      "Program", 0, "")))))))

(***************************************************************************)
(* semantic.py                                                             *)
(***************************************************************************)
\* one entry of a scope frame: the name and {'type', 'line', 'initialized'}
Entry(name, type, line, initialized) ==
    [name |-> name, type |-> type, line |-> line, initialized |-> initialized]

\* what SymbolTable.lookup returns when it returns None
NoEntry == Entry("", "", 0, FALSE)

\* the place of name in a frame, 0 when the frame does not hold it
IndexIn(frame, name) ==
    IF \E k \in 1..Len(frame) : frame[k].name = name
    THEN CHOOSE k \in 1..Len(frame) : frame[k].name = name
    ELSE 0

\* the frame closest to the top that holds name, 0 when none does
FrameOf(scs, name) ==
    LET holding == {d \in 1..Len(scs) : IndexIn(scs[d], name) # 0}
    IN  IF holding = {} THEN 0 ELSE CHOOSE d \in holding : \A o \in holding : o <= d

\* enter_scope pushing two frames: a fault C19_ScopeStackDiscipline has to tell
\* from enter_scope
enter_scope_twice(scs) == Append(Append(scs, <<>>), <<>>)

enter_scope(scs) == Append(scs, <<>>)

\* exit_scope with the pop left out: a fault C10_LoopScoping has to tell from
\* exit_scope
exit_scope_kept(scs) == scs

exit_scope(scs) == IF scs # <<>> THEN SubSeq(scs, 1, Len(scs) - 1) ELSE scs

\* SymbolTable.add replacing the entry of a name the frame already holds: a
\* fault C17_RedeclarationAndShadowing has to tell from add
add_overwriting(scs, name, data_type, line, initialized) ==
    IF IndexIn(scs[Len(scs)], name) # 0
    THEN [ok |-> FALSE,
          scopes |-> [scs EXCEPT ![Len(scs)][IndexIn(scs[Len(scs)], name)] =
                         Entry(name, data_type, line, initialized)]]
    ELSE [ok |-> TRUE,
          scopes |-> [scs EXCEPT ![Len(scs)] =
                         Append(@, Entry(name, data_type, line, initialized))]]

\* SymbolTable.add: ok is its return value
add(scs, name, data_type, line, initialized) ==
    IF IndexIn(scs[Len(scs)], name) # 0
    THEN [ok |-> FALSE, scopes |-> scs]
    ELSE [ok |-> TRUE,
          scopes |-> [scs EXCEPT ![Len(scs)] =
                         Append(@, Entry(name, data_type, line, initialized))]]

lookup(scs, name) ==
    LET d == FrameOf(scs, name)
    IN  IF d = 0 THEN NoEntry ELSE scs[d][IndexIn(scs[d], name)]

mark_initialized(scs, name) ==
    LET d == FrameOf(scs, name)
    IN  IF d = 0 THEN scs
        ELSE [scs EXCEPT ![d][IndexIn(scs[d], name)].initialized = TRUE]

\* a diagnostic of log_error or log_warning: the message and the line
Diag(message, line) == [msg |-> message, line |-> line]

\* the analyzer's lists while a handler runs, and the exception raised so far
Logs(errs, warns, raised) == [errors |-> errs, warnings |-> warns, raised |-> raised]

log_error(lg, message, line) == [lg EXCEPT !.errors = Append(@, Diag(message, line))]

log_warning(lg, message, line) == [lg EXCEPT !.warnings = Append(@, Diag(message, line))]

Typed(type, lg) == [type |-> type, lg |-> lg]

\* the node kinds SemanticAnalyzer has a visit_ method for
ExprHandlers == {"Identifier", "Number", "String", "Bool", "AdditiveExpr", "TermExpr"}

visit_Identifier(node, scs, lg) ==
    LET info == lookup(scs, node.value)
    IN  IF node.value \in {"Ally", "Enemy"} THEN Typed("flag", lg)
        ELSE IF info # NoEntry
        THEN Typed(info.type,
                   IF ~info.initialized
                   THEN log_warning(lg, "Variable '" \o node.value
                                        \o "' used but might not be initialized", node.line)
                   ELSE lg)
        ELSE Typed("unknown",
                   log_error(lg, "Variable '" \o node.value \o "' not declared", node.line))

\* the strings of n digits
RECURSIVE DigitStr(_)
DigitStr(n) ==
    IF n = 0 THEN {""} ELSE {a \o d : a \in DigitStr(n - 1), d \in Digits}

\* the numerals without a fractional part, up to the longest numeral of the inputs
DigitStrings == UNION {DigitStr(n) : n \in 1..MaxNumeralLen}

\* "." in node.value, node.value being a numeral the scanner matched: it holds a
\* dot exactly when it is not a run of digits
HasDot(value) == value \notin DigitStrings

visit_Number(node) == IF HasDot(node.value) THEN "force" ELSE "soldier"

\* the typing rules of visit_AdditiveExpr once both operands are visited
AdditiveType(left_type, right_type, line, lg) ==
    IF (left_type = "intel" /\ right_type # "intel")
       \/ (right_type = "intel" /\ left_type # "intel")
    THEN Typed("error", log_error(lg, "Cannot add String (intel) with Number", line))
    ELSE IF left_type = "flag" \/ right_type = "flag"
    THEN Typed("error", log_error(lg, "Cannot perform math on Boolean (flag)", line))
    ELSE IF left_type = "intel" /\ right_type = "intel" THEN Typed("intel", lg)
    ELSE IF left_type = "force" \/ right_type = "force" THEN Typed("force", lg)
    ELSE Typed("soldier", lg)

\* the typing rules of visit_TermExpr once both operands are visited
TermType(left_type, right_type, line, lg) ==
    IF left_type = "intel" \/ right_type = "intel"
    THEN Typed("error", log_error(lg, "Cannot multiply/divide Strings", line))
    ELSE IF left_type = "force" \/ right_type = "force" THEN Typed("force", lg)
    ELSE Typed("soldier", lg)

RECURSIVE visit_expr(_, _, _), visit_children_expr(_, _, _, _)

\* SemanticAnalyzer.visit on a node of an expression: the type returned ("None"
\* for Python's None) and the lists after it.  The scopes do not change in it.
visit_expr(node, scs, lg) ==
    IF lg.raised # "none" THEN Typed("None", lg)
    ELSE IF node = NoneNode THEN Typed("None", [lg EXCEPT !.raised = "AttributeError"])
    ELSE CASE node.name = "Identifier" -> visit_Identifier(node, scs, lg)
      [] node.name = "Number" -> Typed(visit_Number(node), lg)
      [] node.name = "String" -> Typed("intel", lg)
      [] node.name = "Bool"   -> Typed("flag", lg)
      [] node.name = "AdditiveExpr" ->
             LET l == visit_expr(node.children[1], scs, lg)
                 r == visit_expr(node.children[3], scs, l.lg)
             IN  IF r.lg.raised # "none" THEN Typed("None", r.lg)
                 ELSE AdditiveType(l.type, r.type, node.line, r.lg)
      [] node.name = "TermExpr" ->
             LET l == visit_expr(node.children[1], scs, lg)
                 r == visit_expr(node.children[3], scs, l.lg)
             IN  IF r.lg.raised # "none" THEN Typed("None", r.lg)
                 ELSE TermType(l.type, r.type, node.line, r.lg)
      [] OTHER -> Typed("None", visit_children_expr(node.children, 1, scs, lg))

\* visit_children inside an expression: children k.. visited in order
visit_children_expr(children, k, scs, lg) ==
    IF k > Len(children) THEN lg
    ELSE visit_children_expr(children, k + 1, scs, visit_expr(children[k], scs, lg).lg)

\* check_assignment_compatibility with its two types taken the wrong way round:
\* a fault C8_AssignmentCompatibility has to tell from it
check_assignment_swapped(var_type, expr_type, line, lg) ==
    IF var_type = "error" \/ var_type = "unknown" THEN lg
    ELSE IF expr_type = "soldier" /\ var_type = "force"
    THEN log_error(lg, "Type Mismatch: Cannot assign 'force' (float) to 'soldier' (int)",
                   line)
    ELSE IF expr_type = "soldier" /\ var_type = "intel"
    THEN log_error(lg, "Type Mismatch: Cannot assign 'intel' (string) to 'soldier' (int)",
                   line)
    ELSE IF expr_type = "intel" /\ var_type = "soldier"
    THEN log_error(lg, "Type Mismatch: Cannot assign 'soldier' (int) to 'intel' (string)",
                   line)
    ELSE lg

check_assignment_compatibility(var_type, expr_type, line, lg) ==
    IF expr_type = "error" \/ expr_type = "unknown" THEN lg
    ELSE IF var_type = "soldier" /\ expr_type = "force"
    THEN log_error(lg, "Type Mismatch: Cannot assign 'force' (float) to 'soldier' (int)",
                   line)
    ELSE IF var_type = "soldier" /\ expr_type = "intel"
    THEN log_error(lg, "Type Mismatch: Cannot assign 'intel' (string) to 'soldier' (int)",
                   line)
    ELSE IF var_type = "intel" /\ expr_type = "soldier"
    THEN log_error(lg, "Type Mismatch: Cannot assign 'soldier' (int) to 'intel' (string)",
                   line)
    ELSE lg

\* SemanticAnalyzer.visit_Declaration: the scopes and the lists after it
visit_Declaration(node, scs, lg) ==
    LET var_type == node.children[1].value
        var_name == node.children[2].value
        has_init == Len(node.children) > 2
        ex       == IF has_init THEN visit_expr(node.children[4], scs, lg)
                    ELSE Typed("None", lg)
        lg1      == IF has_init /\ ex.lg.raised = "none"
                    THEN check_assignment_compatibility(var_type, ex.type, node.line, ex.lg)
                    ELSE ex.lg
        added    == add(scs, var_name, var_type, node.line, has_init)
    IN  IF lg1.raised # "none" THEN [scopes |-> scs, lg |-> lg1]
        ELSE [scopes |-> added.scopes,
              lg |-> IF added.ok THEN lg1
                     ELSE log_error(lg1, "Variable '" \o var_name
                                         \o "' already declared in this scope", node.line)]

\* SemanticAnalyzer.visit_Assignment: the scopes and the lists after it
visit_Assignment(node, scs, lg) ==
    LET var_name == node.children[1].value
        var_info == lookup(scs, var_name)
        ex       == visit_expr(node.children[3], scs, lg)
    IN  IF var_info = NoEntry
        THEN [scopes |-> scs,
              lg |-> log_error(lg, "Variable '" \o var_name \o "' not declared", node.line)]
        ELSE IF ex.lg.raised # "none" THEN [scopes |-> scs, lg |-> ex.lg]
        ELSE [scopes |-> mark_initialized(scs, var_name),
              lg |-> check_assignment_compatibility(var_info.type, ex.type,
                                                    node.line, ex.lg)]

\* an entry of the walk's agenda: a node still to visit, or the exit_scope that
\* ends visit_Block or visit_ForStmt.  The exit_scope of a node remembers the
\* scopes its enter_scope found, which nothing in the walk reads.
VisitItem(node) == [kind |-> "visit", node |-> node, saved |-> <<>>]

ExitItem(node, saved) == [kind |-> "exit_scope", node |-> node, saved |-> saved]

\* visit_children with the children taken last first: a fault
\* C14_AnalysisRepeatable has to tell from it
ChildItems_reversed(node) ==
    [k \in 1..Len(node.children) |->
        VisitItem(node.children[Len(node.children) + 1 - k])]

\* the visits of the children of a node, in order
ChildItems(node) == [k \in 1..Len(node.children) |-> VisitItem(node.children[k])]

RECURSIVE analyze_visit(_, _), analyze_children(_, _, _)

\* SemanticAnalyzer.visit as the recursion the code runs: the symbol table and
\* the lists after the visit of a node, from those before it
analyze_visit(node, st) ==
    IF st.lg.raised # "none" THEN st
    ELSE IF node = NoneNode THEN [st EXCEPT !.lg.raised = "AttributeError"]
    ELSE CASE node.name \in {"Block", "ForStmt"} ->
             LET after == analyze_children(node.children, 1,
                                           [st EXCEPT !.scopes = enter_scope(@)])
             IN  IF after.lg.raised # "none" THEN after
                 ELSE [after EXCEPT !.scopes = exit_scope(@)]
      [] node.name = "Declaration" -> visit_Declaration(node, st.scopes, st.lg)
      [] node.name = "Assignment" -> visit_Assignment(node, st.scopes, st.lg)
      [] node.name \in ExprHandlers ->
             [st EXCEPT !.lg = visit_expr(node, st.scopes, st.lg).lg]
      [] OTHER -> analyze_children(node.children, 1, st)

\* SemanticAnalyzer.visit_children from child k on
analyze_children(children, k, st) ==
    IF k > Len(children) \/ st.lg.raised # "none" THEN st
    ELSE analyze_children(children, k + 1, analyze_visit(children[k], st))

\* SemanticAnalyzer().analyze(node): a new analyzer, with a new symbol table
\* and empty lists, run on the tree
analyze(node) ==
    analyze_visit(node, [scopes |-> enter_scope(<<>>), lg |-> Logs(<<>>, <<>>, "none")])

(***************************************************************************)
(* code_generation.py                                                      *)
(***************************************************************************)
\* the CodeGenerator object while generate runs
GenState(out, level, raised) == [output |-> out, indent_level |-> level, raised |-> raised]

RECURSIVE Spaces(_)
Spaces(n) == IF n <= 0 THEN "" ELSE "    " \o Spaces(n - 1)

\* CodeGenerator.indent
indent(gs) == Spaces(gs.indent_level)

\* CodeGenerator.emit with newline=False
emit(gs, text) == [gs EXCEPT !.output = Append(@, text)]

emit_line(gs, text) == [gs EXCEPT !.output = Append(@, indent(gs) \o text \o "\n")]

RECURSIVE visit_expression(_)
\* CodeGenerator.visit_expression; it is only ever called on a node
visit_expression(node) ==
    CASE node.name \in {"RelationalExpr", "AdditiveExpr", "TermExpr"} ->
             "(" \o visit_expression(node.children[1]) \o " " \o node.children[2].value
                 \o " " \o visit_expression(node.children[3]) \o ")"
      [] node.name \in {"Number", "String"} -> node.value
      [] node.name = "Identifier" ->
             IF node.value = "Ally" THEN "True"
             ELSE IF node.value = "Enemy" THEN "False" ELSE node.value
      [] node.name = "Bool" -> IF node.value = "Ally" THEN "True" ELSE "False"
      [] OTHER -> ""

\* ", ".join(args) of visit_OutputStmt
RECURSIVE JoinArgs(_)
JoinArgs(children) ==
    IF children = <<>> THEN ""
    ELSE IF Len(children) = 1 THEN visit_expression(children[1])
    ELSE visit_expression(children[1]) \o ", " \o JoinArgs(Tail(children))

\* update_node.value.replace("++", "") for the value parse_for_update builds,
\* an identifier of the inputs followed by "++"
DropIncrement(value) ==
    IF \E n \in IdentifierWords : value = n \o "++"
    THEN CHOOSE n \in IdentifierWords : value = n \o "++"
    ELSE value

RECURSIVE gen_visit(_, _), gen_visit_children(_, _, _)

\* the update line at the end of visit_ForStmt
gen_for_update(update_node, gs) ==
    CASE update_node.name = "Assignment" ->
             emit_line(gs, update_node.children[1].value \o " = "
                           \o visit_expression(update_node.children[3]))
      [] update_node.name = "Increment" ->
             emit_line(gs, DropIncrement(update_node.value) \o " += 1")
      [] OTHER -> gs

\* visit_ForStmt with the update line written before the body: a fault
\* C13_LoopDesugaring has to tell from it
gen_visit_ForStmt_update_first(node, gs) ==
    LET init   == gen_visit(node.children[1], gs)
        header == emit_line(init, "while " \o visit_expression(node.children[2]) \o ":")
        inner  == [header EXCEPT !.indent_level = @ + 1]
    IN  IF init.raised # "none" THEN init
        ELSE IF Len(node.children) < 4 THEN [inner EXCEPT !.raised = "IndexError"]
        ELSE LET upd  == gen_for_update(node.children[3], inner)
                 body == gen_visit(node.children[4].children[1], upd)
             IN  IF body.raised # "none" THEN body
                 ELSE [body EXCEPT !.indent_level = @ - 1]

gen_visit_ForStmt(node, gs) ==
    LET init   == gen_visit(node.children[1], gs)
        header == emit_line(init, "while " \o visit_expression(node.children[2]) \o ":")
        inner  == [header EXCEPT !.indent_level = @ + 1]
    IN  IF init.raised # "none" THEN init
        ELSE IF Len(node.children) < 4 THEN [inner EXCEPT !.raised = "IndexError"]
        ELSE LET body == gen_visit(node.children[4].children[1], inner)
                 upd  == gen_for_update(node.children[3], body)
             IN  IF body.raised # "none" THEN body
                 ELSE [upd EXCEPT !.indent_level = @ - 1]

gen_visit_IfStmt(node, gs) ==
    LET header == emit_line(gs, "if " \o visit_expression(node.children[1]) \o ":")
        then   == gen_visit(node.children[2], header)
    IN  IF Len(node.children) > 2 /\ then.raised = "none"
        THEN gen_visit(node.children[3], emit_line(then, "else:"))
        ELSE then

\* CodeGenerator.visit: dispatch on the node's name, visit_children by default
gen_visit(node, gs) ==
    IF gs.raised # "none" THEN gs
    ELSE IF node = NoneNode THEN [gs EXCEPT !.raised = "AttributeError"]
    ELSE CASE node.name \in {"ImportList", "GlobalDeclarations"} ->
             LET after == gen_visit_children(node.children, 1, gs)
             IN  IF after.raised # "none" THEN after ELSE emit(after, "\n")
      [] node.name = "IncludeStmt" ->
             IF node.children = <<>> THEN [gs EXCEPT !.raised = "IndexError"]
             ELSE emit_line(gs, "import " \o node.children[1].value)
      [] node.name = "MainFunction" ->
             gen_visit_children(node.children, 1,
                                emit_line(gs, "if __name__ == \"__main__\":"))
      [] node.name = "Block" ->
             LET after == gen_visit_children(node.children, 1,
                              [gs EXCEPT !.indent_level = @ + 1])
             IN  IF after.raised # "none" THEN after
                 ELSE [after EXCEPT !.indent_level = @ - 1]
      [] node.name = "Declaration" ->
             IF Len(node.children) > 2
             THEN emit_line(gs, node.children[2].value \o " = "
                                \o visit_expression(node.children[4]))
             ELSE emit_line(gs, node.children[2].value \o " = None")
      [] node.name = "Assignment" ->
             emit_line(gs, node.children[1].value \o " = "
                           \o visit_expression(node.children[3]))
      [] node.name = "IfStmt" -> gen_visit_IfStmt(node, gs)
      [] node.name = "WhileStmt" ->
             gen_visit(node.children[2],
                       emit_line(gs, "while " \o visit_expression(node.children[1]) \o ":"))
      [] node.name = "ForStmt" -> gen_visit_ForStmt(node, gs)
      [] node.name = "OutputStmt" ->
             emit_line(gs, "print(" \o JoinArgs(node.children) \o ")")
      [] node.name = "InputStmt" ->
             IF node.children = <<>> THEN [gs EXCEPT !.raised = "IndexError"]
             ELSE emit_line(gs, node.children[1].value \o " = input()")
      [] OTHER -> gen_visit_children(node.children, 1, gs)

gen_visit_children(children, k, gs) ==
    IF k > Len(children) \/ gs.raised # "none" THEN gs
    ELSE gen_visit_children(children, k + 1, gen_visit(children[k], gs))

\* CodeGenerator.generate, before the join
generate(node) == gen_visit(node, GenState(<<>>, 0, "none"))

(***************************************************************************)
(* The source text of a program given as words: the words' characters, with *)
(* one space between two words that would otherwise run together.          *)
(***************************************************************************)
RECURSIVE TextOf(_)
TextOf(words) ==
    IF words = <<>> THEN <<>>
    ELSE IF Len(words) = 1 THEN CharsOf[words[1]]
    ELSE LET a == CharsOf[words[1]]
             b == CharsOf[words[2]]
         IN  a \o (IF a[Len(a)] \in WordChars /\ b[1] \in WordChars THEN <<" ">> ELSE <<>>)
               \o TextOf(Tail(words))

(***************************************************************************)
(* Input texts.                                                            *)
(***************************************************************************)
\* a program that passes every stage
BaseProgram ==
    <<"soldier", "x", ";", "force", "y", "=", "1.5", ";", "\n",
      "battle", "(", ")", "{", "\n",
      "deploy", "(", "soldier", "i", "=", "0", ";", "i", "<", "3", ";", "i", "++", ")",
      "{", "x", "=", "i", ";", "}", "\n",
      "shield", "(", "x", "<", "3", ")", "{", "shout", "(", "x", "+", "5", ")", ";", "}",
      "retreat", "{", "scout", "(", "x", ")", ";", "}", "\n",
      "}">>

BaseTexts == {TextOf(BaseProgram)}

\* scanner inputs: every text over these characters, up to MaxTextLen long
ScanAlphabet == {"1", ".", "a", "\"", "/", "#", "\n", " "}

ScanTexts == UNION {[1..n -> ScanAlphabet] : n \in 0..MaxTextLen}

\* parser inputs: the base program with one word deleted, cut at any word
Deletions(words) ==
    {SubSeq(words, 1, k - 1) \o SubSeq(words, k + 1, Len(words)) : k \in 1..Len(words)}

Prefixes(words) == {SubSeq(words, 1, k) : k \in 0..Len(words)}

ParsePrograms ==
    UNION {Prefixes(w) : w \in Deletions(BaseProgram) \cup {BaseProgram}}

ParseTexts == {TextOf(w) : w \in ParsePrograms}

\* analyzer inputs: simple statements, and the lists of at most n of them
SimpleStmts ==
    {<<"soldier", "x", "=", "5", ";">>,
     <<"x", "=", "5", ";">>,
     <<"y", "=", "x", ";">>,
     <<"shout", "(", "x", ")", ";">>,
     <<"shout", "(", "i", ")", ";">>}

RECURSIVE StmtSeqs(_)
StmtSeqs(n) ==
    IF n = 0 THEN {<<>>}
    ELSE StmtSeqs(n - 1) \cup {s \o t : s \in SimpleStmts, t \in StmtSeqs(n - 1)}

\* the statements before a compound statement
Pres == {<<>>, <<"soldier", "x", ";">>, <<"soldier", "x", "=", "5", ";">>}

CompoundKinds ==
    {"plain", "shield", "retreat", "march", "nested",
     "deploy", "deploy_x", "deploy_step", "deploy_j", "deploy_bare"}

\* a compound statement of each kind around a body
Compound(kind, body) ==
    CASE kind = "plain" -> body
      [] kind = "shield" ->
             <<"shield", "(", "Ally", ")", "{">> \o body \o <<"}">>
      [] kind = "retreat" ->
             <<"shield", "(", "Ally", ")", "{", "}", "retreat", "{">> \o body \o <<"}">>
      [] kind = "march" ->
             <<"march", "(", "x", "<", "3", ")", "{">> \o body \o <<"}">>
      [] kind = "nested" ->
             <<"shield", "(", "Ally", ")", "{", "march", "(", "Ally", ")", "{">>
                 \o body \o <<"}", "}">>
      [] kind = "deploy" ->
             <<"deploy", "(", "soldier", "i", "=", "0", ";", "i", "<", "3", ";",
               "i", "++", ")", "{">> \o body \o <<"}">>
      [] kind = "deploy_x" ->
             <<"deploy", "(", "soldier", "x", "=", "0", ";", "x", "<", "3", ";",
               "x", "++", ")", "{">> \o body \o <<"}">>
      [] kind = "deploy_step" ->
             <<"deploy", "(", "soldier", "i", "=", "0", ";", "i", "<", "3", ";",
               "i", "=", "i", "+", "5", ")", "{">> \o body \o <<"}">>
      [] kind = "deploy_j" ->
             <<"deploy", "(", "soldier", "i", "=", "0", ";", "i", "<", "3", ";",
               "j", "++", ")", "{">> \o body \o <<"}">>
      [] kind = "deploy_bare" ->
             <<"deploy", "(", "x", "<", "3", ";", "x", "++", ")", "{">>
                 \o body \o <<"}">>

\* the entry block around statements
Battle(stmts) == <<"battle", "(", ")", "{">> \o stmts \o <<"}">>

\* scoping inputs: statements, a compound statement whose body has at most
\* MaxStmts statements, and at most one statement after it
SemPrograms ==
    {Battle(pre \o Compound(kind, body) \o post) :
         pre \in Pres, kind \in CompoundKinds,
         body \in StmtSeqs(MaxStmts), post \in StmtSeqs(1)}

\* typing inputs: every declaration and every assignment of a variable of each
\* type with an operand or one binary operation on two operands
TypeWords == {"soldier", "force", "intel", "flag"}

Operands == {<<"5">>, <<"1.5">>, <<"\"s\"">>, <<"Ally">>, <<"flag">>, <<"z">>}

MathOps == {"+", "-", "*", "/"}

Exprs ==
    Operands \cup {a \o <<op>> \o b : a \in Operands, op \in MathOps, b \in Operands}
             \cup {<<"5", "<", "3">>}

TypePrograms ==
    {Battle(<<t, "x", "=">> \o e \o <<";">>) : t \in TypeWords, e \in Exprs}
        \cup {Battle(<<t, "x", ";", "x", "=">> \o e \o <<";">>) :
                  t \in TypeWords, e \in Exprs}

\* analyzer inputs, with the base program cut at any word
SemTexts ==
    {TextOf(w) : w \in SemPrograms \cup TypePrograms \cup Prefixes(BaseProgram)}

(***************************************************************************)
(* Pipeline inputs: programs that use one construct of the language each.  *)
(***************************************************************************)
MaxArgs == 3         \* output statements: the most arguments of one statement

\* the argument lists of the output statements
ArgLists == UNION {[1..n -> {"x", "5", "1.5"}] : n \in 1..MaxArgs}

\* the words e1 , e2 , ... , en
RECURSIVE CommaList(_)
CommaList(args) ==
    IF Len(args) <= 1 THEN args ELSE <<args[1], ",">> \o CommaList(Tail(args))

\* battle(){soldier x=5;shout(e1,...,en);}
OutputProgram(args) ==
    Battle(<<"soldier", "x", "=", "5", ";", "shout", "(">> \o CommaList(args)
               \o <<")", ";">>)

MaxIncludes == 2     \* include statements before the entry block

\* the lists of names included
IncludeLists == UNION {[1..n -> {"lib", "x"}] : n \in 1..MaxIncludes}

\* one line `#call name` per name
RECURSIVE IncludeLines(_)
IncludeLines(names) ==
    IF names = <<>> THEN <<>>
    ELSE <<"#call", names[1], "\n">> \o IncludeLines(Tail(names))

\* the include lines, then an empty entry block
IncludeProgram(names) == IncludeLines(names) \o Battle(<<>>)

MaxBody == 2         \* bounded loops: the statements of the loop's body

\* the statements of the bodies of the bounded loops
LoopStmts ==
    {<<"shout", "(", "i", ")", ";">>,
     <<"x", "=", "i", ";">>,
     <<"shield", "(", "Ally", ")", "{", "shout", "(", "x", ")", ";", "}">>}

\* a body is a list of statements
LoopBodies == UNION {[1..n -> LoopStmts] : n \in 0..MaxBody}

RECURSIVE Flatten(_)
Flatten(seqs) == IF seqs = <<>> THEN <<>> ELSE Head(seqs) \o Flatten(Tail(seqs))

\* the update clauses: an increment, an assignment, none
LoopUpdates == {<<"i", "++">>, <<"i", "=", "i", "+", "5">>, <<>>}

\* deploy(soldier i=0;i<3;update){body}
LoopWords(update, body) ==
    <<"deploy", "(", "soldier", "i", "=", "0", ";", "i", "<", "3", ";">> \o update
        \o <<")", "{">> \o Flatten(body) \o <<"}">>

\* a declaration, the loop directly in the entry block or inside a conditional,
\* and statements after it
LoopProgram(wrap, update, body, post) ==
    Battle(<<"soldier", "x", "=", "5", ";">> \o Compound(wrap, LoopWords(update, body))
               \o Flatten(post))

MaxOps == 3          \* expressions: the binary operators of one expression

\* the operands of an expression, by their place in it
ExprOperands == <<"x", "5", "y", "3", "z", "0">>

\* operand k, then each operator of ops with the operand after it
RECURSIVE ExprWords(_, _)
ExprWords(ops, k) ==
    IF ops = <<>> THEN <<ExprOperands[k]>>
    ELSE <<ExprOperands[k], Head(ops)>> \o ExprWords(Tail(ops), k + 1)

\* declarations of the operands, then `soldier i = <expression>;` for every
\* list of relational, additive and multiplicative operators
ExprPrograms ==
    {Battle(<<"soldier", "x", "=", "5", ";", "soldier", "y", "=", "5", ";",
              "soldier", "z", "=", "5", ";", "soldier", "i", "=">>
                \o ExprWords(ops, 1) \o <<";">>) :
         ops \in UNION {[1..n -> {"<", "==", "+", "-", "*", "/"}] : n \in 1..MaxOps}}

\* a declaration of x without initializer, then one or two statements that
\* read or write x, directly in the entry block or inside a conditional, and a
\* statement after them
InitPrograms ==
    LET stmts == {<<"scout", "(", "x", ")", ";">>,
                  <<"x", "=", "5", ";">>,
                  <<"x", "=", "x", "+", "5", ";">>,
                  <<"shout", "(", "x", ")", ";">>,
                  <<"y", "=", "x", ";">>}
    IN  {Battle(<<"soldier", "x", ";">> \o Compound(kind, shadow \o first) \o second) :
             kind \in {"plain", "shield"}, shadow \in {<<>>, <<"soldier", "x", ";">>},
             first \in stmts, second \in stmts}

\* pipeline inputs
PipePrograms ==
    {OutputProgram(args) : args \in ArgLists}
        \cup {IncludeProgram(names) : names \in IncludeLists}
        \cup {LoopProgram(wrap, update, body, post) :
                  wrap \in {"plain", "shield"}, update \in LoopUpdates,
                  body \in LoopBodies, post \in {<<>>, <<<<"x", "=", "5", ";">>>>}}
        \cup ExprPrograms
        \cup InitPrograms

PipeTexts == {TextOf(w) : w \in PipePrograms}

(***************************************************************************)
(* main.py: WarLangGUI.run_compiler, with the stages it calls              *)
(***************************************************************************)
\* the state when RUN is pressed with text in the editor
InitWith(texts) ==
    /\ code \in texts
    /\ pc = "start"
    /\ console = <<>>
    /\ position = 0
    /\ line_num = 1
    /\ line_start = 0
    /\ tokens = <<>>
    /\ lexerrs = <<>>
    /\ perrors = <<>>
    /\ root = NoneNode
    /\ scopes = <<>>
    /\ errors = <<>>
    /\ warnings = <<>>
    /\ agenda = <<>>
    /\ output = <<>>
    /\ crash = "none"

\* the except branch of run_compiler
Crashed(what) ==
    /\ pc' = "crash"
    /\ crash' = what
    /\ console' = Append(console, "[!] CRITICAL COMPILER CRASH")

\* run_compiler up to the call of tokenize
Start ==
    /\ pc = "start"
    /\ code' = Strip(code)
    /\ IF Strip(code) = <<>>
       THEN /\ pc' = "empty"
            /\ console' = console \o <<">>> STARTING COMPILATION...",
                                       "[!] Error: Source code is empty.">>
       ELSE /\ pc' = "tokenize"
            /\ console' = console \o <<">>> STARTING COMPILATION...", "[1] TOKENIZING...">>
    /\ UNCHANGED <<position, line_num, line_start, tokens, lexerrs, perrors, root,
                   scopes, errors, warnings, agenda, output, crash>>

\* the locals of tokenize after an iteration, and the except branch when it raised
Scanned(it) ==
    /\ position' = it.position
    /\ line_num' = it.line_num
    /\ line_start' = it.line_start
    /\ tokens' = it.tokens
    /\ lexerrs' = it.lexerrs
    /\ IF it.raised # "none"
       THEN Crashed(it.raised)
       ELSE UNCHANGED <<pc, crash, console>>

\* one iteration of the while loop of tokenize
TokenizeStep ==
    /\ pc = "tokenize"
    /\ position < Len(code)
    /\ Scanned(ScanIteration(code, position, line_num, line_start, tokens, lexerrs))
    /\ UNCHANGED <<code, perrors, root, scopes, errors, warnings, agenda, output>>

\* tokenize returns its tokens
TokenizeReturn ==
    /\ pc = "tokenize"
    /\ position >= Len(code)
    /\ pc' = "parse"
    /\ console' = Append(console, "[2] PARSING...")
    /\ UNCHANGED <<code, position, line_num, line_start, tokens, lexerrs, perrors, root,
                   scopes, errors, warnings, agenda, output, crash>>

\* parse has ended in the parser state ps: the except branch when it raised,
\* else the check of parser.errors and SemanticAnalyzer()
Parsed(ps) ==
    /\ perrors' = ps.errors
    /\ IF ps.raised # "none"
       THEN /\ Crashed(ps.raised)
            /\ UNCHANGED <<root, scopes, agenda>>
       ELSE /\ root' = top(ps)
            /\ crash' = crash
            /\ IF ps.errors # <<>>
               THEN /\ pc' = "parse_failed"
                    /\ console' = Append(console, "[PARSING FAILED]")
                    /\ UNCHANGED <<scopes, agenda>>
               ELSE /\ pc' = "analyze"
                    /\ console' = Append(console, "[3] SEMANTIC ANALYSIS...")
                    /\ scopes' = enter_scope(<<>>)
                    /\ agenda' = <<VisitItem(top(ps))>>

\* Parser(tokens).parse()
Parse ==
    /\ pc = "parse"
    /\ Parsed(parse(tokens))
    /\ UNCHANGED <<code, position, line_num, line_start, tokens, lexerrs,
                   errors, warnings, output>>

\* the node SemanticAnalyzer.visit is called on next
Visiting == agenda[1].node

AtVisit(names) ==
    /\ pc = "analyze"
    /\ agenda # <<>>
    /\ agenda[1].kind = "visit"
    /\ Visiting.name \in names

AnalyzeFrame == <<code, pc, console, position, line_num, line_start, tokens, lexerrs,
                  perrors, root, output, crash>>

\* a handler ends: its scopes and lists, and the except branch when it raised
Handled(scs, lg, rest) ==
    /\ scopes' = scs
    /\ errors' = lg.errors
    /\ warnings' = lg.warnings
    /\ agenda' = rest
    /\ IF lg.raised # "none"
       THEN /\ Crashed(lg.raised)
            /\ UNCHANGED <<code, position, line_num, line_start, tokens, lexerrs,
                           perrors, root, output>>
       ELSE UNCHANGED AnalyzeFrame

\* visit_Block and visit_ForStmt up to visit_children: enter_scope
VisitScoped ==
    /\ AtVisit({"Block", "ForStmt"})
    /\ Handled(enter_scope(scopes), Logs(errors, warnings, "none"),
               ChildItems(Visiting) \o <<ExitItem(Visiting, scopes)>> \o Tail(agenda))

\* visit_Block and visit_ForStmt after visit_children: exit_scope
ExitScope ==
    /\ pc = "analyze"
    /\ agenda # <<>>
    /\ agenda[1].kind = "exit_scope"
    /\ Handled(exit_scope(scopes), Logs(errors, warnings, "none"), Tail(agenda))

\* a handler that returns its scopes and lists in r ends
HandledBy(r, rest) == Handled(r.scopes, r.lg, rest)

VisitDeclaration ==
    /\ AtVisit({"Declaration"})
    /\ HandledBy(visit_Declaration(Visiting, scopes, Logs(errors, warnings, "none")),
                 Tail(agenda))

VisitAssignment ==
    /\ AtVisit({"Assignment"})
    /\ HandledBy(visit_Assignment(Visiting, scopes, Logs(errors, warnings, "none")),
                 Tail(agenda))

\* visit of an expression that is the child of a statement
VisitExpression ==
    /\ AtVisit(ExprHandlers)
    /\ Handled(scopes, visit_expr(Visiting, scopes, Logs(errors, warnings, "none")).lg,
               Tail(agenda))

\* visit_children, the default of visit, and the handlers that only call it;
\* visit(None) raises on node.name
VisitChildren ==
    /\ pc = "analyze"
    /\ agenda # <<>>
    /\ agenda[1].kind = "visit"
    /\ Visiting.name \notin ExprHandlers \cup {"Block", "ForStmt", "Declaration", "Assignment"}
    /\ IF Visiting = NoneNode
       THEN Handled(scopes, Logs(errors, warnings, "AttributeError"), Tail(agenda))
       ELSE Handled(scopes, Logs(errors, warnings, "none"),
                    ChildItems(Visiting) \o Tail(agenda))

\* AnalyzeReturn with the warnings taken for errors: a fault C5_StageGating has
\* to tell from it
AnalyzeReturnOnWarnings ==
    /\ pc = "analyze"
    /\ agenda = <<>>
    /\ IF errors # <<>> \/ warnings # <<>>
       THEN /\ pc' = "semantic_failed"
            /\ console' = Append(console, "[SEMANTIC FAILED]")
       ELSE /\ pc' = "generate"
            /\ console' = Append(console, "[4] CODE GENERATION...")
    /\ UNCHANGED <<code, position, line_num, line_start, tokens, lexerrs, perrors, root,
                   scopes, errors, warnings, agenda, output, crash>>

\* analyze returns; run_compiler checks analyzer.errors
AnalyzeReturn ==
    /\ pc = "analyze"
    /\ agenda = <<>>
    /\ IF errors # <<>>
       THEN /\ pc' = "semantic_failed"
            /\ console' = Append(console, "[SEMANTIC FAILED]")
       ELSE /\ pc' = "generate"
            /\ console' = Append(console, "[4] CODE GENERATION...")
    /\ UNCHANGED <<code, position, line_num, line_start, tokens, lexerrs, perrors, root,
                   scopes, errors, warnings, agenda, output, crash>>

\* generate has ended in the generator state g: the except branch when it
\* raised, else the closing log line
Generated(g) ==
    /\ output' = g.output
    /\ IF g.raised # "none"
       THEN Crashed(g.raised)
       ELSE /\ pc' = "done"
            /\ console' = Append(console, "COMPILATION COMPLETE.")
            /\ crash' = crash

\* CodeGenerator().generate(root)
Generate ==
    /\ pc = "generate"
    /\ Generated(generate(root))
    /\ UNCHANGED <<code, position, line_num, line_start, tokens, lexerrs, perrors, root,
                   scopes, errors, warnings, agenda>>

Next ==
    \/ Start
    \/ TokenizeStep
    \/ TokenizeReturn
    \/ Parse
    \/ VisitScoped
    \/ ExitScope
    \/ VisitDeclaration
    \/ VisitAssignment
    \/ VisitExpression
    \/ VisitChildren
    \/ AnalyzeReturn
    \/ Generate

SpecScan == InitWith(ScanTexts \cup BaseTexts) /\ [][Next]_vars

SpecParse == InitWith(ParseTexts) /\ [][Next]_vars

Spec == InitWith(SemTexts) /\ [][Next]_vars

SpecPipe == InitWith(PipeTexts) /\ [][Next]_vars

(***************************************************************************)
(* Properties.                                                             *)
(***************************************************************************)
StageMarkers ==
    <<"[1] TOKENIZING...", "[2] PARSING...", "[3] SEMANTIC ANALYSIS...",
      "[4] CODE GENERATION...">>

\* the stage markers logged so far, in the order they were logged
StagesLogged == SelectSeq(console, LAMBDA m : \E k \in 1..4 : StageMarkers[k] = m)

\* run_compiler caught an exception raised in stage k
CrashedIn(k) == pc = "crash" /\ Len(StagesLogged) = k

\* the nodes of a tree
RECURSIVE Nodes(_)
Nodes(node) == {node} \cup UNION {Nodes(node.children[k]) : k \in 1..Len(node.children)}

\* the analysis of the tree has ended
Analyzed == pc \in {"semantic_failed", "generate", "done"}

\* the names a tree declares, and the names it uses: in an Identifier node or as
\* the variable of a loop-update increment; Ally and Enemy are literals
DeclaredNames(tree) ==
    {n.children[2].value : n \in {m \in Nodes(tree) : m.name = "Declaration"}}

UsedNames(tree) ==
    ({n.value : n \in {m \in Nodes(tree) : m.name = "Identifier"}}
        \cup {w \in IdentifierWords :
                 \E m \in Nodes(tree) : m.name = "Increment" /\ m.value = w \o "++"})
    \ {"Ally", "Enemy"}

NotDeclared(name) == "Variable '" \o name \o "' not declared"

Reported(message) == \E k \in 1..Len(errors) : errors[k].msg = message

\* C1: tokenize is total: for every text it returns its token list without
\* raising, a lexical problem only adding a diagnostic.
C1_TokenizeTotal == ~CrashedIn(1)

RECURSIVE NoNullChildren(_)
NoNullChildren(node) ==
    \A k \in 1..Len(node.children) :
        node.children[k] # NoneNode /\ NoNullChildren(node.children[k])

\* C2: parse never aborts: for every token sequence it returns a Program tree
\* without raising, and the tree has no missing (None) children.
C2_ParseNeverAborts == ~CrashedIn(2) /\ NoNullChildren(root)

\* C3: no read of the token sequence at or beyond its end is an out-of-range
\* failure.
C3_NoOutOfRangeRead == ~(CrashedIn(2) /\ crash = "IndexError")

\* C4: generation does not fail on a tree that parse and analyze accepted with
\* empty error lists: generate returns its text without raising.
C4_GenerateTotal == (perrors = <<>> /\ errors = <<>>) => ~CrashedIn(4)

\* the stage the driver is in, by its place in the code
StageOf ==
    CASE pc \in {"start", "empty"} -> 0
      [] pc = "tokenize" -> 1
      [] pc \in {"parse", "parse_failed"} -> 2
      [] pc \in {"analyze", "semantic_failed"} -> 3
      [] pc \in {"generate", "done"} -> 4
      [] pc = "crash" -> Len(StagesLogged)

\* C5: the stages run in the order tokenize, parse, analyze, generate, each one
\* after its predecessor has consumed its whole input; generate is reached only
\* with the parser's and the analyzer's error lists both empty; the run stops
\* before generate only on a non-empty error list, never on warnings alone.
C5_StageGating ==
    /\ StagesLogged = SubSeq(StageMarkers, 1, StageOf)
    /\ StageOf >= 2 => position >= Len(code)
    /\ StageOf >= 3 => perrors = <<>>
    /\ StageOf >= 4 => errors = <<>> /\ agenda = <<>>
    /\ pc = "parse_failed" => perrors # <<>>
    /\ pc = "semantic_failed" => errors # <<>> /\ agenda = <<>>

\* a run that passed every stage with warnings logged
C5_Witness == pc = "done" /\ warnings # <<>> /\ StagesLogged = StageMarkers

\* C6: the analysis reports every undeclared identifier: once it has ended,
\* every name the tree uses and declares nowhere has a 'not declared' error.
C6_EveryUndeclaredReported ==
    Analyzed =>
        \A n \in UsedNames(root) \ DeclaredNames(root) : Reported(NotDeclared(n))

\* the expressions the handler of a statement or expression node evaluates
Evaluated(node, scs) ==
    CASE node.name = "Declaration" /\ Len(node.children) > 2 -> {node.children[4]}
      [] node.name = "Assignment" /\ lookup(scs, node.children[1].value) # NoEntry ->
             {node.children[3]}
      [] node.name \in ExprHandlers -> {node}
      [] OTHER -> {}

\* the binary node b, evaluated in the current scopes, is rejected when one of
\* its operands is of type flag: it logs an error of its own and is of type error
FlagOperandRejected(b) ==
    LET lg == Logs(errors, warnings, "none")
        l  == visit_expr(b.children[1], scopes, lg)
        r  == visit_expr(b.children[3], scopes, l.lg)
        t  == visit_expr(b, scopes, lg)
    IN  (l.type = "flag" \/ r.type = "flag")
            => t.type = "error" /\ Len(t.lg.errors) > Len(r.lg.errors)

\* C7: every additive and every multiplicative binary node the analyzer
\* evaluates with an operand of type flag logs an error and has the error type.
C7_FlagOperandsRejected ==
    (pc = "analyze" /\ agenda # <<>> /\ agenda[1].kind = "visit") =>
        \A e \in Evaluated(Visiting, scopes) :
            \A b \in Nodes(e) :
                b.name \in {"AdditiveExpr", "TermExpr"} => FlagOperandRejected(b)

\* the types of C8: the four declared types, the error and unknown types, and
\* "None" for no type
AllTypes == {"soldier", "force", "intel", "flag", "error", "unknown", "None"}

Mismatches == {<<"soldier", "force">>, <<"soldier", "intel">>, <<"intel", "soldier">>}

MismatchMessage(pair) ==
    CASE pair = <<"soldier", "force">> ->
             "Type Mismatch: Cannot assign 'force' (float) to 'soldier' (int)"
      [] pair = <<"soldier", "intel">> ->
             "Type Mismatch: Cannot assign 'intel' (string) to 'soldier' (int)"
      [] pair = <<"intel", "soldier">> ->
             "Type Mismatch: Cannot assign 'soldier' (int) to 'intel' (string)"

\* the errors the check is to log for a variable type and a value type
MismatchExpected(var_type, expr_type, line) ==
    IF <<var_type, expr_type>> \in Mismatches
    THEN <<Diag(MismatchMessage(<<var_type, expr_type>>), line)>>
    ELSE <<>>

\* the Type Mismatch errors of a list
MismatchesLogged(errs) ==
    SelectSeq(errs, LAMBDA d : \E pair \in Mismatches : d.msg = MismatchMessage(pair))

\* the check alone, on every pair of types
CompatibilityTable ==
    \A var_type \in AllTypes, expr_type \in AllTypes :
        check_assignment_compatibility(var_type, expr_type, 1, Logs(<<>>, <<>>, "none"))
            = Logs(MismatchExpected(var_type, expr_type, 1), <<>>, "none")

\* the type the analyzer finds for an expression in the current state
TypeOf(expr) == visit_expr(expr, scopes, Logs(errors, warnings, "none")).type

\* the check as a declaration with initializer and an assignment to a declared
\* variable apply it
CompatibilityApplied ==
    /\ (AtVisit({"Declaration"}) /\ Len(Visiting.children) > 2 /\ pc' = "analyze")
           => MismatchesLogged(errors')
                  = MismatchesLogged(errors)
                        \o MismatchExpected(Visiting.children[1].value,
                                            TypeOf(Visiting.children[4]), Visiting.line)
    /\ (AtVisit({"Assignment"}) /\ lookup(scopes, Visiting.children[1].value) # NoEntry
            /\ pc' = "analyze")
           => MismatchesLogged(errors')
                  = MismatchesLogged(errors)
                        \o MismatchExpected(lookup(scopes, Visiting.children[1].value).type,
                                            TypeOf(Visiting.children[3]), Visiting.line)

\* C8: the assignment-compatibility check logs exactly one Type Mismatch error
\* for the pairs (soldier, force), (soldier, intel) and (intel, soldier) and
\* nothing for every other pair of types, and it is applied to every declaration
\* with initializer and to every assignment.
C8_AssignmentCompatibility == []CompatibilityTable /\ [][CompatibilityApplied]_vars

\* the analysis of `intel x = 5;` has logged its Type Mismatch
C8_Witness ==
    /\ Analyzed
    /\ Reported("Type Mismatch: Cannot assign 'soldier' (int) to 'intel' (string)")
    /\ \E n \in Nodes(root) :
           /\ n.name = "Declaration"
           /\ n.children[1].value = "intel"
           /\ Len(n.children) > 2

\* the statements of the entry block, and the names declared outside every
\* compound statement: before the entry block or directly in it
MainStmts(tree) == tree.children[Len(tree.children)].children[1].children[1].children

Compounds == {"IfStmt", "WhileStmt", "ForStmt"}

OuterDeclared(tree) ==
    {n.children[2].value :
        n \in {m \in UNION {Nodes(tree.children[k]) : k \in 1..Len(tree.children) - 1} :
                  m.name = "Declaration"}}
    \cup {MainStmts(tree)[k].children[2].value :
             k \in {j \in 1..Len(MainStmts(tree)) : MainStmts(tree)[j].name = "Declaration"}}

\* C9: a name declared only inside a compound statement of the entry block and
\* used in a simple statement after it, as assignment target or in an
\* expression, has a 'not declared' error once the analysis has ended.
C9_UseAfterBlockReported ==
    Analyzed =>
        \A k \in 1..Len(MainStmts(root)) : \A j \in (k + 1)..Len(MainStmts(root)) :
            (MainStmts(root)[k].name \in Compounds
                /\ MainStmts(root)[j].name \notin Compounds)
            => \A n \in (DeclaredNames(MainStmts(root)[k])
                            \cap UsedNames(MainStmts(root)[j])) \ OuterDeclared(root) :
                   Reported(NotDeclared(n))

\* what frames declare: the names with their types and lines, in order
Declared(scs) ==
    [d \in 1..Len(scs) |->
        [k \in 1..Len(scs[d]) |->
            [name |-> scs[d][k].name, type |-> scs[d][k].type, line |-> scs[d][k].line]]]

\* the variable a bounded loop declares in its header
HeaderDeclares(loop) ==
    IF Len(loop.children) = 4 /\ loop.children[1].name = "Declaration"
    THEN {loop.children[1].children[2].value}
    ELSE {}

\* the walk is at the exit_scope that ends visit_ForStmt
AtLoopExit ==
    /\ pc = "analyze"
    /\ agenda # <<>>
    /\ agenda[1].kind = "exit_scope"
    /\ agenda[1].node.name = "ForStmt"

\* while a loop is open and its header's declaration is visited, the variable
\* of the header resolves
ResolvesInLoop ==
    \A k \in 1..Len(agenda) :
        (agenda[k].kind = "exit_scope" /\ agenda[k].node.name = "ForStmt")
        => \A v \in HeaderDeclares(agenda[k].node) :
               (\A j \in 1..(k - 1) : agenda[j] # VisitItem(agenda[k].node.children[1]))
               => lookup(scopes, v) # NoEntry

\* the exit of a loop leaves the frames the loop found, with what they declared
\* then, so that the variable of the header resolves only if it did before
LoopLeavesDeclared ==
    (AtLoopExit /\ pc' = "analyze")
    => /\ Declared(scopes') = Declared(agenda[1].saved)
       /\ \A v \in HeaderDeclares(agenda[1].node) :
              lookup(scopes', v) # NoEntry => lookup(agenda[1].saved, v) # NoEntry

\* C10, as amended: the variable of a bounded loop's header resolves while the
\* loop's condition, update and body are analyzed, and after the loop the
\* enclosing frames declare what they declared before it, with the same types
\* and lines; only the initialized marks of their variables may have been set.
C10_LoopScoping == []ResolvesInLoop /\ [][LoopLeavesDeclared]_vars

\* C10, as stated: the frames are the same after the loop as before it
C10_FramesUnchanged == [][AtLoopExit => scopes' = agenda[1].saved]_vars

\* the analysis of a loop with a variable i of its header, used after the loop
\* and not resolved there
C10_Witness ==
    /\ Analyzed
    /\ Reported(NotDeclared("i"))
    /\ \E n \in Nodes(root) : n.name = "ForStmt" /\ HeaderDeclares(n) = {"i"}
    /\ \E k \in 1..Len(MainStmts(root)) :
           MainStmts(root)[k].name = "OutputStmt" /\ "i" \in UsedNames(MainStmts(root)[k])


\* the arguments e1, ..., en as the generator joins them
RECURSIVE JoinWords(_)
JoinWords(args) ==
    IF Len(args) = 1 THEN args[1] ELSE args[1] \o ", " \o JoinWords(Tail(args))

\* the fragments of the output equal to line
Emitted(line) == {k \in 1..Len(output) : output[k] = line}

\* C11: an output statement with several comma-separated arguments goes through
\* the pipeline: no lexical and no syntax error, an OutputStmt node with one
\* child per argument in order, and one generated line print(e1, ..., en).
C11_OutputArguments ==
    \A args \in ArgLists :
        (Len(args) > 1 /\ code = TextOf(OutputProgram(args)))
        => /\ lexerrs = <<>>
           /\ pc \notin {"parse_failed", "crash"}
           /\ StageOf >= 3
                  => \E n \in Nodes(root) :
                         /\ n.name = "OutputStmt"
                         /\ Len(n.children) = Len(args)
                         /\ \A k \in 1..Len(args) : n.children[k].value = args[k]
           /\ pc = "done"
                  => Cardinality(Emitted("    print(" \o JoinWords(args) \o ")\n")) = 1


\* C12: an include statement goes through the pipeline: for `#call name` lines
\* before the entry block, tokenize emits an INCLUDE_IMPORT token followed by an
\* IDENTIFIER token per line, parse builds an ImportList with one IncludeStmt
\* per include, and generate emits one `import name` line per name and then one
\* blank line.
C12_IncludePipeline ==
    \A names \in IncludeLists :
        code = TextOf(IncludeProgram(names))
        => /\ StageOf >= 2
                  => /\ Len(tokens) >= 2 * Len(names)
                     /\ \A k \in 1..Len(names) :
                            /\ tokens[2 * k - 1].type = "INCLUDE_IMPORT"
                            /\ tokens[2 * k - 1].value = "#call"
                            /\ tokens[2 * k].type = "IDENTIFIER"
                            /\ tokens[2 * k].value = names[k]
           /\ StageOf >= 3
                  => /\ root.children[1].name = "ImportList"
                     /\ Len(root.children[1].children) = Len(names)
                     /\ \A k \in 1..Len(names) :
                            /\ root.children[1].children[k].name = "IncludeStmt"
                            /\ Len(root.children[1].children[k].children) = 1
                            /\ root.children[1].children[k].children[1].value = names[k]
           /\ pc = "done"
                  => /\ Len(output) > Len(names)
                     /\ \A k \in 1..Len(names) : output[k] = "import " \o names[k] \o "\n"
                     /\ output[Len(names) + 1] = "\n"


\* a generated line at depth d
Line(d, text) == Spaces(d) \o text \o "\n"

\* the lines of a statement of LoopStmts at depth d
StmtLines(stmt, d) ==
    CASE stmt = <<"shout", "(", "i", ")", ";">> -> <<Line(d, "print(i)")>>
      [] stmt = <<"x", "=", "i", ";">> -> <<Line(d, "x = i")>>
      [] stmt = <<"x", "=", "5", ";">> -> <<Line(d, "x = 5")>>
      [] stmt = <<"shield", "(", "Ally", ")", "{", "shout", "(", "x", ")", ";", "}">> ->
             <<Line(d, "if True:"), Line(d + 1, "print(x)")>>

RECURSIVE BodyLines(_, _)
BodyLines(body, d) ==
    IF body = <<>> THEN <<>> ELSE StmtLines(Head(body), d) \o BodyLines(Tail(body), d)

\* the update line of an update clause of LoopUpdates at depth d
UpdateLines(update, d) ==
    CASE update = <<"i", "++">> -> <<Line(d, "i += 1")>>
      [] update = <<"i", "=", "i", "+", "5">> -> <<Line(d, "i = (i + 5)")>>
      [] update = <<>> -> <<>>

\* the lines of the loop of LoopWords at depth d
LoopLines(update, body, d) ==
    <<Line(d, "i = 0"), Line(d, "while (i < 3):")>>
        \o BodyLines(body, d + 1) \o UpdateLines(update, d + 1)

\* the text of LoopProgram
LoopOutput(wrap, update, body, post) ==
    <<Line(0, "if __name__ == \"__main__\":"), Line(1, "x = 5")>>
        \o (IF wrap = "shield"
            THEN <<Line(1, "if True:")>> \o LoopLines(update, body, 2)
            ELSE LoopLines(update, body, 1))
        \o BodyLines(post, 1)

LoopTexts ==
    {TextOf(LoopProgram(wrap, update, body, post)) :
         wrap \in {"plain", "shield"}, update \in LoopUpdates, body \in LoopBodies,
         post \in {<<>>, <<<<"x", "=", "5", ";">>>>}}

\* C13: for a bounded loop with a header declaration at depth d, generate emits
\* the initializer line at depth d, the line `while <condition>:` at depth d,
\* the statements of the body at depth d+1 in source order, then the update
\* line (`v = expr` or `v += 1`; none for an empty update) as the last line at
\* depth d+1; what follows the loop is at depth d again.
C13_LoopDesugaring ==
    (code \in LoopTexts /\ pc \in {"parse_failed", "semantic_failed", "crash", "done"})
    => \A wrap \in {"plain", "shield"}, update \in LoopUpdates, body \in LoopBodies,
          post \in {<<>>, <<<<"x", "=", "5", ";">>>>} :
           code = TextOf(LoopProgram(wrap, update, body, post))
           => pc = "done" /\ output = LoopOutput(wrap, update, body, post)

\* a loop inside a conditional, with two statements in its body, an increment
\* update and a statement after it, has been generated
C13_Witness ==
    /\ pc = "done"
    /\ code = TextOf(LoopProgram("shield", <<"i", "++">>,
                                 <<<<"shout", "(", "i", ")", ";">>, <<"x", "=", "i", ";">>>>,
                                 <<<<"x", "=", "5", ";">>>>))
    /\ output = <<"if __name__ == \"__main__\":\n",
                  "    x = 5\n",
                  "    if True:\n",
                  "        i = 0\n",
                  "        while (i < 3):\n",
                  "            print(i)\n",
                  "            x = i\n",
                  "            i += 1\n",
                  "    x = 5\n">>


\* the analysis has ended, by its return or by an exception
AnalysisEnded == Analyzed \/ CrashedIn(3)

NewlinesBefore(text, o) == {q \in 1..o : text[q] = "\n"}

\* the offset of column `column` of line `line` of a text, -1 when the text has
\* no such line
OffsetOf(text, line, column) ==
    IF line = 1 THEN column - 1
    ELSE IF \E p \in 1..Len(text) :
                text[p] = "\n" /\ Cardinality(NewlinesBefore(text, p)) = line - 1
    THEN (CHOOSE p \in 1..Len(text) :
              text[p] = "\n" /\ Cardinality(NewlinesBefore(text, p)) = line - 1)
         + column - 1
    ELSE -1

\* where token k starts and ends in the source, by its line and column
TokStart(k) == OffsetOf(code, tokens[k].line, tokens[k].column)

TokEnd(k) == TokStart(k) + Len(tokens[k].value)

\* the offsets inside tokens
InToken(o) == \E k \in 1..Len(tokens) : TokStart(k) <= o /\ o < TokEnd(k)

\* the end of the line of offset o
LineEnd(o) == RunEndNot(code, o, {"\n"})

\* where the span of lexical diagnostic j starts and ends: the symbol or the
\* numeral its message quotes, or the rest of the line for an open string
ErrStart(j) == OffsetOf(code, lexerrs[j].line, lexerrs[j].column)

ErrEnds(j) ==
    {e \in (ErrStart(j) + 1)..Len(code) :
        \/ lexerrs[j].msg = "Unexpected symbol '" \o Slice(code, ErrStart(j), e) \o "'"
        \/ lexerrs[j].msg = "Invalid number format '" \o Slice(code, ErrStart(j), e) \o "'"
        \/ lexerrs[j].msg = "Unterminated string literal" /\ e = LineEnd(ErrStart(j))}

InErrorSpan(o) ==
    \E j \in 1..Len(lexerrs) :
        ErrStart(j) >= 0 /\ \E e \in ErrEnds(j) : ErrStart(j) <= o /\ o < e

\* the offsets of a comment: from a # outside every token and error span to the
\* end of its line
InComment(o) ==
    \E h \in 0..o :
        /\ code[h + 1] = "#"
        /\ ~InToken(h)
        /\ ~InErrorSpan(h)
        /\ o < LineEnd(h)

\* C15: the tokens tokenize returns are in strictly increasing source offset
\* order and do not overlap; the lexeme of each is the source substring at its
\* 1-based line and column; every source character outside the tokens is
\* discarded whitespace, a newline, in a comment, or in a span reported as a
\* lexical error.
C15_TokenFidelity ==
    pc = "parse"
    => /\ \A k \in 1..Len(tokens) :
              /\ tokens[k].line >= 1 /\ tokens[k].column >= 1
              /\ TokStart(k) >= 0 /\ TokEnd(k) <= Len(code)
              /\ Slice(code, TokStart(k), TokEnd(k)) = tokens[k].value
              /\ k > 1 => TokEnd(k - 1) <= TokStart(k)
       /\ \A o \in 0..(Len(code) - 1) :
              \/ InToken(o)
              \/ code[o + 1] \in Whitespace
              \/ InComment(o)
              \/ InErrorSpan(o)

\* tokenize has returned tokens of a text of two lines with a comment and a
\* lexical error
C15_Witness ==
    /\ pc = "parse"
    /\ lexerrs # <<>>
    /\ \E k \in 1..Len(tokens) : tokens[k].line = 2
    /\ \E o \in 0..(Len(code) - 1) : code[o + 1] = "#" /\ InComment(o)


\* how tight an operator binds: relational, additive, multiplicative
Prec(op) ==
    CASE op \in {"==", "!=", "<", ">", "<=", ">="} -> 1
      [] op \in {"+", "-"} -> 2
      [] op \in {"*", "/"} -> 3

\* the operator an expression splits at: the last of those that bind least
\* (ws is operand, operator, operand, ..., operand)
SplitAt(ws) ==
    CHOOSE k \in 1..Len(ws) :
        /\ k % 2 = 0
        /\ \A j \in 1..Len(ws) : j % 2 = 0 => Prec(ws[k]) <= Prec(ws[j])
        /\ \A j \in (k + 1)..Len(ws) : j % 2 = 0 => Prec(ws[k]) < Prec(ws[j])

\* the rendering of an expression with every binary operation in parentheses
RECURSIVE Grouped(_)
Grouped(ws) ==
    IF Len(ws) = 1 THEN ws[1]
    ELSE "(" \o Grouped(SubSeq(ws, 1, SplitAt(ws) - 1)) \o " " \o ws[SplitAt(ws)] \o " "
             \o Grouped(SubSeq(ws, SplitAt(ws) + 1, Len(ws))) \o ")"

ExprTexts == {TextOf(w) : w \in ExprPrograms}

\* the lexemes of the expression of a program of ExprPrograms: the tokens after
\* `battle(){` , three declarations and `soldier i =`, up to the semicolon
ExprLexemes == [k \in 1..(Len(tokens) - 24) |-> tokens[22 + k].value]

\* C16: for every expression over operands and relational, additive and
\* multiplicative operators, parse followed by visit_expression renders every
\* binary node as (<left> <op> <right>), multiplicative binding tighter than
\* additive, additive tighter than relational, each level left-associative.
C16_ExpressionGrouping ==
    (code \in ExprTexts /\ pc \in {"parse_failed", "semantic_failed", "crash", "done"})
    => /\ pc = "done"
       /\ output[Len(output)] = Line(1, "i = " \o Grouped(ExprLexemes))

\* the expression x - 5 - y * 3 has been rendered
C16_Witness ==
    /\ pc = "done"
    /\ code \in ExprTexts
    /\ ExprLexemes = <<"x", "-", "5", "-", "y", "*", "3">>
    /\ output[Len(output)] = "    i = ((x - 5) - (y * 3))\n"


AlreadyDeclared(name) == "Variable '" \o name \o "' already declared in this scope"

\* how many errors of a list have a message
CountOf(errs, message) == Cardinality({k \in 1..Len(errs) : errs[k].msg = message})

\* the visit of a declaration of a name the innermost frame holds
Redeclaration ==
    (AtVisit({"Declaration"})
        /\ IndexIn(scopes[Len(scopes)], Visiting.children[2].value) # 0)
    => /\ pc' = "analyze"
       /\ agenda' = Tail(agenda)
       /\ scopes' = scopes
       /\ CountOf(errors', AlreadyDeclared(Visiting.children[2].value))
              = CountOf(errors, AlreadyDeclared(Visiting.children[2].value)) + 1

\* the visit of a declaration of a name the innermost frame does not hold,
\* whatever the outer frames hold
NewDeclaration ==
    (AtVisit({"Declaration"})
        /\ IndexIn(scopes[Len(scopes)], Visiting.children[2].value) = 0)
    => /\ pc' = "analyze"
       /\ agenda' = Tail(agenda)
       /\ \A n \in IdentifierWords :
              CountOf(errors', AlreadyDeclared(n)) = CountOf(errors, AlreadyDeclared(n))
       /\ Len(scopes') = Len(scopes)
       /\ \A d \in 1..(Len(scopes) - 1) : scopes'[d] = scopes[d]
       /\ scopes'[Len(scopes)]
              = Append(scopes[Len(scopes)],
                       Entry(Visiting.children[2].value, Visiting.children[1].value,
                             Visiting.line, Len(Visiting.children) > 2))

\* C17: declaring a name the innermost frame already holds logs one 'already
\* declared in this scope' error, leaves the entry's type, line and initialized
\* flag unchanged, and the analysis continues; declaring a name only an outer
\* frame holds logs no such error and adds an entry to the innermost frame,
\* the outer entry unchanged.
C17_RedeclarationAndShadowing == [][Redeclaration /\ NewDeclaration]_vars

\* an analysis has ended that declared x in the entry block, declared another x
\* inside a compound statement without an error, and logged one error for the
\* declaration of x again in the entry block
C17_Witness ==
    /\ Analyzed
    /\ CountOf(errors, AlreadyDeclared("x")) = 1
    /\ "x" \in OuterDeclared(root)
    /\ \E k \in 1..Len(MainStmts(root)) :
           /\ MainStmts(root)[k].name \in Compounds
           /\ "x" \in DeclaredNames(MainStmts(root)[k])
           /\ \E j \in (k + 1)..Len(MainStmts(root)) :
                  MainStmts(root)[j].name = "Declaration"


UsedUninitialized(name) == "Variable '" \o name \o "' used but might not be initialized"

\* the warnings of the reads of an expression, in order: one for every
\* identifier whose nearest visible declaration is not initialized
RECURSIVE ReadWarnings(_, _), ReadWarningsFrom(_, _, _)
ReadWarnings(node, scs) ==
    IF node.name = "Identifier"
    THEN IF /\ node.value \notin {"Ally", "Enemy"}
            /\ \E d \in 1..Len(scs) :
                   /\ IndexIn(scs[d], node.value) # 0
                   /\ \A o \in (d + 1)..Len(scs) : IndexIn(scs[o], node.value) = 0
                   /\ ~scs[d][IndexIn(scs[d], node.value)].initialized
         THEN <<Diag(UsedUninitialized(node.value), node.line)>>
         ELSE <<>>
    ELSE ReadWarningsFrom(node.children, 1, scs)

ReadWarningsFrom(children, k, scs) ==
    IF k > Len(children) THEN <<>>
    ELSE ReadWarnings(children[k], scs) \o ReadWarningsFrom(children, k + 1, scs)

\* the analyzer as it is when a visit starts
AnalyzerNow == [scopes |-> scopes, lg |-> Logs(errors, warnings, "none")]

\* statements that only read: the visit of an output statement, and of the
\* condition of a conditional or a loop, adds the warnings of its reads
ReadsWarn ==
    /\ AtVisit({"OutputStmt"})
           => analyze_visit(Visiting, AnalyzerNow).lg.warnings
                  = warnings \o ReadWarnings(Visiting, scopes)
    /\ AtVisit({"IfStmt", "WhileStmt"})
           => analyze_visit(Visiting.children[1], AnalyzerNow).lg.warnings
                  = warnings \o ReadWarnings(Visiting.children[1], scopes)

\* the target of an input statement is written: its visit adds no warning
InputTargetSilent ==
    AtVisit({"InputStmt"}) => analyze_visit(Visiting, AnalyzerNow).lg.warnings = warnings

\* the nearest visible declaration of name is marked, and nothing else changes
MarksNearest(name) ==
    \E d \in 1..Len(scopes) :
        /\ IndexIn(scopes[d], name) # 0
        /\ \A o \in (d + 1)..Len(scopes) : IndexIn(scopes[o], name) = 0
        /\ scopes' = [scopes EXCEPT ![d][IndexIn(scopes[d], name)].initialized = TRUE]

\* an assignment adds the warnings of the reads of its right-hand side, as the
\* declarations are before it, and marks the nearest declaration of its
\* target; a declaration adds the warnings of the reads of its initializer
WritesMark ==
    /\ (AtVisit({"Assignment"}) /\ pc' = "analyze")
           => /\ warnings' = warnings \o ReadWarnings(Visiting.children[3], scopes)
              /\ lookup(scopes, Visiting.children[1].value) # NoEntry
                     => MarksNearest(Visiting.children[1].value)
    /\ (AtVisit({"Declaration"}) /\ Len(Visiting.children) > 2 /\ pc' = "analyze")
           => warnings' = warnings \o ReadWarnings(Visiting.children[4], scopes)

\* the warning is never logged as an error
NeverAnError ==
    \A k \in 1..Len(errors), n \in IdentifierWords : errors[k].msg # UsedUninitialized(n)

\* C18: the 'used but might not be initialized' warning (never an error) is
\* emitted for an identifier exactly when it is read in an expression and its
\* nearest visible declaration is not initialized at that point of the walk; a
\* write target (of an assignment, of an input statement) never triggers it;
\* an assignment marks the nearest visible declaration only, after its
\* right-hand side has been analyzed.
C18_InitializationTracking ==
    /\ [](ReadsWarn /\ InputTargetSilent /\ NeverAnError)
    /\ [][WritesMark]_vars


\* the Block and ForStmt nodes whose visit is open: they enclose what the walk
\* visits next
OpenScopes == {k \in 1..Len(agenda) : agenda[k].kind = "exit_scope"}

\* during analyze the stack is not empty, its depth is 1 plus the number of
\* open Block and ForStmt nodes, and these enclose the node visited
DepthIsNesting ==
    pc = "analyze"
    => /\ scopes # <<>>
       /\ Len(scopes) = 1 + Cardinality(OpenScopes)
       /\ \A k \in OpenScopes :
              /\ agenda[k].node.name \in {"Block", "ForStmt"}
              /\ agenda[1].kind = "visit" => Visiting \in Nodes(agenda[k].node)

\* an exit pops the frame pushed last, the one its own entry pushed
PopsLastPushed ==
    (pc = "analyze" /\ agenda # <<>> /\ agenda[1].kind = "exit_scope")
    => /\ scopes' = SubSeq(scopes, 1, Len(scopes) - 1)
       /\ Len(scopes') = Len(agenda[1].saved)
       /\ \A k \in OpenScopes \ {1} : Len(agenda[k].saved) < Len(agenda[1].saved)

\* C19: at every point of analyze the scope stack is non-empty and its depth
\* is 1 plus the number of Block and ForStmt nodes enclosing the node visited;
\* frames are popped in the reverse order of their pushes; when analyze returns
\* exactly the global frame remains, whatever errors were logged.
C19_ScopeStackDiscipline ==
    /\ [](DepthIsNesting /\ (Analyzed => Len(scopes) = 1))
    /\ [][PopsLastPushed]_vars

\* the walk is inside a block inside a loop inside the entry block, with an
\* error logged
C19_Witness ==
    /\ pc = "analyze"
    /\ Len(scopes) = 4
    /\ errors # <<>>
    /\ \E k \in OpenScopes : agenda[k].node.name = "ForStmt"


\* the parser at token p, holding no node
ParserAt(p) == ParserState(p, <<>>, "none")

\* the token types the parser matches
MatchedTypes ==
    {"PROGRAM_START", "LPAREN", "RPAREN", "LBRACE", "RBRACE", "SEMICOLON", "ASSIGN",
     "IDENTIFIER", "IF", "ELSE", "WHILE", "FOR", "OUTPUT", "INPUT", "INCLUDE_IMPORT"}

\* an iteration of tokenize's loop moves the cursor forward
CursorAdvances == (pc = "tokenize" /\ position < Len(code)) => position' > position

\* match never moves the parser back, and a failed match leaves it in place
MatchKeepsPlace ==
    \A p \in 0..Len(tokens), t \in MatchedTypes :
        /\ match(tokens, ParserAt(p), t).position >= p
        /\ match(tokens, ParserAt(p), t).tok = NoneToken
               => match(tokens, ParserAt(p), t).position = p

\* an iteration of each loop of the parser, started at any token, consumes a
\* token: the statement list, the global declarations, the import list, the
\* operator loops
LoopsConsume ==
    \A p \in 0..(Len(tokens) - 1) :
        /\ tokens[p + 1].type # "RBRACE"
               => parse_statement(tokens, ParserAt(p)).position > p
        /\ tokens[p + 1].type \in TypeTokens
               => parse_declaration(tokens, ParserAt(p)).position > p
        /\ tokens[p + 1].type = "INCLUDE_IMPORT"
               => parse_include_stmt(tokens, ParserAt(p)).position > p
        /\ tokens[p + 1].type \in {"MUL", "DIV"}
               => parse_factor(tokens, advance(tokens, ParserAt(p))).position > p
        /\ tokens[p + 1].type \in {"PLUS", "MINUS"}
               => parse_term(tokens, advance(tokens, ParserAt(p))).position > p
        /\ tokens[p + 1].type \in {"EQ", "NOT_EQ", "LESS_THAN", "GREAT_THAN", "LE", "GE"}
               => parse_additive(tokens, advance(tokens, ParserAt(p))).position > p

\* parse ends by its return, not by an exception
ParseReturns ==
    pc = "parse" => pc' \in {"parse_failed", "analyze"}

\* C20: scanning and parsing terminate on every finite input: each iteration
\* of tokenize's loop strictly increases the cursor, on every error path too;
\* the parser's position never decreases, a failed match leaves it unchanged,
\* every iteration of each parser loop consumes at least one token, and parse
\* reaches its return.
C20_ScanParseTerminate ==
    /\ [](pc = "parse" => MatchKeepsPlace /\ LoopsConsume)
    /\ [][CursorAdvances /\ ParseReturns]_vars

====
